---- MODULE Spec2Model ----
(***************************************************************************)
(* Model of the projection engine of the mortgage calculator               *)
(* (calculateFuturePrice, calculateSavingsWithGrowth,                      *)
(* calculateMonthsToTarget, generateMonthlyProjection, calculateAll).      *)
(*                                                                         *)
(* Numbers.  The engine computes on JavaScript numbers.  The model computes *)
(* on exact values: a number is a record [neg, mag, e] that stands for     *)
(* +-mag / Den^e, where Den = 100 * 12 is the divisor of every annual      *)
(* percentage (`x / 100 / 12` in the source) and mag is a natural number   *)
(* of arbitrary size, kept as a little-endian sequence of limbs in         *)
(* 0..Base-1.  Every sum, product and comparison below is exact, so the    *)
(* model is the engine without floating-point rounding error; Math.round   *)
(* is modelled as floor(x + 1/2), which is its definition.                 *)
(***************************************************************************)
EXTENDS Integers, Sequences, FiniteSets, TLC

\* Limb base of the arbitrary-size naturals (a limb times a factor below
\* 200000 stays inside TLC's 32-bit integers).
Base == 100 * 100

\* The divisor that turns an annual percentage into a monthly rate.
Den == 100 * 12

(***************************************************************************)
(* Natural numbers of arbitrary size: <<>> is 0, the last limb is not 0.   *)
(* The operators split the limbs in halves, so that the evaluation depth   *)
(* is logarithmic in the length; the carry runs from the low half to the   *)
(* high half (the remainder of a division the other way round).            *)
(***************************************************************************)
RECURSIVE MagOfNat(_)
MagOfNat(n) == IF n = 0 THEN <<>> ELSE <<n % Base>> \o MagOfNat(n \div Base)

RECURSIVE MagTop(_, _, _)
\* The highest index in lo..hi of a limb that is not 0, or 0.
MagTop(a, lo, hi) ==
    IF lo > hi THEN 0
    ELSE IF lo = hi THEN (IF a[lo] # 0 THEN lo ELSE 0)
    ELSE LET mid == (lo + hi) \div 2
             H == MagTop(a, mid + 1, hi)
         IN  IF H # 0 THEN H ELSE MagTop(a, lo, mid)

\* The limbs without the zero limbs at the high end.
MagStrip(a) == SubSeq(a, 1, MagTop(a, 1, Len(a)))

\* One round of carries: every limb keeps its residue and takes the carry
\* (or the borrow, a negative carry) of the limb below.
MagCarryPass(t) ==
    [i \in 1..(Len(t) + 1) |->
        (IF i <= Len(t) THEN t[i] % Base ELSE 0)
        + (IF i > 1 THEN t[i - 1] \div Base ELSE 0)]

RECURSIVE MagCarry(_)
\* The natural number sum of t[i] * Base^(i-1), for limbs of any size.
MagCarry(t) ==
    IF \A i \in 1..Len(t) : t[i] >= 0 /\ t[i] < Base THEN MagStrip(t)
    ELSE MagCarry(MagCarryPass(t))

\* a * m for a small natural m.
MagMulSmall(a, m) ==
    IF m = 0 \/ a = <<>> THEN <<>>
    ELSE MagCarry([i \in 1..Len(a) |-> a[i] * m])

MagAdd(a, b) ==
    IF a = <<>> THEN b
    ELSE IF b = <<>> THEN a
    ELSE MagCarry([i \in 1..(IF Len(a) >= Len(b) THEN Len(a) ELSE Len(b)) |->
                     (IF i <= Len(a) THEN a[i] ELSE 0)
                     + (IF i <= Len(b) THEN b[i] ELSE 0)])

\* a - b, for a >= b.
MagSub(a, b) ==
    IF b = <<>> THEN a
    ELSE MagCarry([i \in 1..Len(a) |-> a[i] - (IF i <= Len(b) THEN b[i] ELSE 0)])

RECURSIVE MagCmpIn(_, _, _, _)
MagCmpIn(a, b, lo, hi) ==
    IF lo = hi
    THEN (IF a[lo] < b[lo] THEN -1 ELSE IF a[lo] > b[lo] THEN 1 ELSE 0)
    ELSE LET mid == (lo + hi) \div 2
             H == MagCmpIn(a, b, mid + 1, hi)
         IN  IF H # 0 THEN H ELSE MagCmpIn(a, b, lo, mid)

\* -1, 0 or 1 as a < b, a = b or a > b.
MagCmp(a, b) ==
    IF Len(a) < Len(b) THEN -1
    ELSE IF Len(a) > Len(b) THEN 1
    ELSE IF a = <<>> THEN 0
    ELSE MagCmpIn(a, b, 1, Len(a))

RECURSIVE MagDivSmallIn(_, _, _, _, _)
\* Limbs lo..hi of the quotient, from the remainder rem of the limbs above.
MagDivSmallIn(a, d, lo, hi, rem) ==
    IF lo = hi
    THEN LET t == rem * Base + a[lo]
         IN  [q |-> <<t \div d>>, r |-> t % d]
    ELSE LET mid == (lo + hi) \div 2
             H == MagDivSmallIn(a, d, mid + 1, hi, rem)
             L == MagDivSmallIn(a, d, lo, mid, H.r)
         IN  \* the high half is evaluated first: the low half needs its remainder
             IF H.r >= 0 THEN [q |-> L.q \o H.q, r |-> L.r] ELSE L

\* Quotient and remainder of a by a small positive d.
MagDivSmall(a, d) ==
    IF a = <<>> THEN [q |-> <<>>, r |-> 0]
    ELSE LET R == MagDivSmallIn(a, d, 1, Len(a), 0)
         IN  [q |-> MagStrip(R.q), r |-> R.r]

\* a * Base^k
MagShift(a, k) == IF a = <<>> THEN a ELSE [i \in 1..k |-> 0] \o a

RECURSIVE MagMulIn(_, _, _, _)
\* a times the number made of the limbs lo..hi of b.
MagMulIn(a, b, lo, hi) ==
    IF lo = hi THEN MagMulSmall(a, b[lo])
    ELSE LET mid == (lo + hi) \div 2
         IN  MagAdd(MagMulIn(a, b, lo, mid),
                    MagShift(MagMulIn(a, b, mid + 1, hi), mid + 1 - lo))

\* a * b (the shorter factor is the one taken limb by limb).
MagMul(a, b) ==
    IF a = <<>> \/ b = <<>> THEN <<>>
    ELSE MagMulIn(IF Len(a) >= Len(b) THEN a ELSE b,
                  IF Len(a) >= Len(b) THEN b ELSE a,
                  1, IF Len(a) >= Len(b) THEN Len(b) ELSE Len(a))

RECURSIVE MagPowIn(_, _, _, _)
RECURSIVE MagPowNext(_, _, _, _, _)
\* acc * base^n, bit by bit of n from the lowest: with `take` the lowest bit
\* is still to be taken into acc, without it base is to be squared.
MagPowIn(base, n, acc, take) ==
    IF n = 0 THEN acc
    ELSE IF take /\ n % 2 = 0 THEN MagPowIn(base, n, acc, FALSE)
    ELSE IF ~take /\ n = 1 THEN acc
    ELSE MagPowNext(MagMul(IF take THEN acc ELSE base, base), base, n, acc, take)

\* The step after the product m: acc * base with `take`, base * base without.
MagPowNext(m, base, n, acc, take) ==
    IF Len(m) < 0 THEN m
    ELSE IF take THEN MagPowIn(base, n, m, FALSE)
    ELSE MagPowIn(m, n \div 2, acc, TRUE)

\* a^n
MagPow(a, n) == MagPowIn(a, n, <<1>>, TRUE)

MagDenPow(e) == MagPowIn(<<Den>>, e, <<1>>, TRUE)

\* a * Den^k
MagScale(a, k) == MagPowIn(<<Den>>, k, a, TRUE)

RECURSIVE MagDivDigit(_, _, _, _)
\* The digit q of lo..hi-1 with q * b <= r < (q + 1) * b, for
\* lo * b <= r < hi * b.
MagDivDigit(r, b, lo, hi) ==
    IF hi - lo <= 1 THEN lo
    ELSE LET mid == (lo + hi) \div 2
         IN  IF MagCmp(MagMulSmall(b, mid), r) <= 0
             THEN MagDivDigit(r, b, mid, hi)
             ELSE MagDivDigit(r, b, lo, mid)

\* The digit d of the quotient of cur by b and the remainder it leaves.
MagDivFloorDigit(cur, b, d) == [q |-> <<d>>, r |-> MagSub(cur, MagMulSmall(b, d))]

\* One limb of the long division: cur < Base * b.
MagDivFloorLimb(cur, b) == MagDivFloorDigit(cur, b, MagDivDigit(cur, b, 0, Base))

RECURSIVE MagDivFloorIn(_, _, _, _, _)
\* Long division of the limbs hi down to lo of a, brought down one by one
\* onto the remainder r < b.
MagDivFloorIn(a, b, lo, hi, r) ==
    IF lo = hi
    THEN MagDivFloorLimb(MagStrip(<<a[lo]>> \o r), b)
    ELSE LET mid == (lo + hi) \div 2
             H == MagDivFloorIn(a, b, mid + 1, hi, r)
         IN  IF Len(H.r) >= 0
             THEN LET L == MagDivFloorIn(a, b, lo, mid, H.r)
                  IN  [q |-> L.q \o H.q, r |-> L.r]
             ELSE H

\* floor(a / b), b not zero
MagDivFloor(a, b) ==
    IF MagCmp(a, b) < 0 THEN <<>>
    ELSE LET top == Len(a) - Len(b) + 1
         IN  MagStrip(MagDivFloorIn(a, b, 1, top, SubSeq(a, top + 1, Len(a))).q)

(***************************************************************************)
(* Exact numbers: [neg, mag, e] is (IF neg THEN -1 ELSE 1) * mag / Den^e,  *)
(* in canonical form (e is as small as it can be, zero is not negative),   *)
(* so two numbers are equal exactly when their records are.                *)
(***************************************************************************)
\* Whether Den divides mag: Den = 3 * 400, Base is a multiple of 400 and leaves
\* the remainder 1 when divided by 3, so the lowest limb decides the one and
\* the sum of the limbs the other.
MagDenDivides(mag) ==
    /\ mag[1] % 400 = 0
    /\ LET r1 == Cardinality({i \in 1..Len(mag) : mag[i] % 3 = 1})
           r2 == Cardinality({i \in 1..Len(mag) : mag[i] % 3 = 2})
       IN  (r1 + 2 * r2) % 3 = 0

RECURSIVE NumNorm(_, _, _)
NumNorm(neg, mag, e) ==
    IF mag = <<>> THEN [neg |-> FALSE, mag |-> <<>>, e |-> 0]
    ELSE IF e = 0 THEN [neg |-> neg, mag |-> mag, e |-> 0]
    ELSE IF ~MagDenDivides(mag) THEN [neg |-> neg, mag |-> mag, e |-> e]
    ELSE NumNorm(neg, MagDivSmall(mag, Den).q, e - 1)

NumOfInt(i) ==
    IF i < 0 THEN [neg |-> TRUE, mag |-> MagOfNat(-i), e |-> 0]
    ELSE [neg |-> FALSE, mag |-> MagOfNat(i), e |-> 0]

NumNeg(x) == IF x.mag = <<>> THEN x ELSE [x EXCEPT !.neg = ~x.neg]

NumMul(x, y) == NumNorm(x.neg # y.neg, MagMul(x.mag, y.mag), x.e + y.e)

\* x / 100 and x / 12: 100 * 12 = Den, so both are exact in this form.
NumDiv100(x) == NumNorm(x.neg, MagMulSmall(x.mag, 12), x.e + 1)
NumDiv12(x) == NumNorm(x.neg, MagMulSmall(x.mag, 100), x.e + 1)

\* The larger less the smaller of a and b.
MagDiff(a, b) ==
    MagSub(IF MagCmp(a, b) >= 0 THEN a ELSE b, IF MagCmp(a, b) >= 0 THEN b ELSE a)

\* (+-a + +-b) / Den^e
NumAddMags(xneg, a, yneg, b, e) ==
    NumNorm(IF xneg = yneg \/ MagCmp(a, b) >= 0 THEN xneg ELSE yneg,
            IF xneg = yneg THEN MagAdd(a, b) ELSE MagDiff(a, b),
            e)

\* x + y for x.e >= y.e
NumAddOrdered(x, y) == NumAddMags(x.neg, x.mag, y.neg, MagScale(y.mag, x.e - y.e), x.e)

NumAdd(x, y) ==
    NumAddOrdered(IF x.e >= y.e THEN x ELSE y, IF x.e >= y.e THEN y ELSE x)

NumSub(x, y) == NumAdd(x, NumNeg(y))

\* -1, 0 or 1 as |x| < |y|, |x| = |y| or |x| > |y|, for x.e >= y.e.
MagCmpOrdered(x, y) == MagCmp(x.mag, MagScale(y.mag, x.e - y.e))

\* -1, 0 or 1 as x < y, x = y or x > y.
NumCmp(x, y) ==
    IF x.neg # y.neg THEN (IF x.neg THEN -1 ELSE 1)
    ELSE (IF x.neg THEN -1 ELSE 1) * (IF x.e >= y.e THEN 1 ELSE -1)
         * MagCmpOrdered(IF x.e >= y.e THEN x ELSE y, IF x.e >= y.e THEN y ELSE x)

NumGeq(x, y) == NumCmp(x, y) >= 0
NumLt(x, y) == NumCmp(x, y) < 0

\* floor(a / b + 1/2) with its sign, or -floor(a / b + 1/2 - 1 / (2 * b)) with it:
\* the integer nearest to +-a / b, a half going up.
MagRound(neg, a, b) ==
    NumNorm(neg,
            MagDivFloor(MagSub(MagAdd(MagMulSmall(a, 2), b), IF neg THEN <<1>> ELSE <<>>),
                        MagMulSmall(b, 2)),
            0)

\* Math.round: floor(x + 1/2), the nearest integer with halves going up.
MathRound(x) == IF x.e = 0 THEN x ELSE MagRound(x.neg, x.mag, MagDenPow(x.e))

\* x / y for y not zero: the exact quotient, kept as its two terms.
NumDivide(x, y) == [num |-> x, den |-> y]

\* q * x and q - x for a quotient q and a number x.
RatioMul(q, x) == [num |-> NumMul(q.num, x), den |-> q.den]
RatioSub(q, x) == [num |-> NumSub(q.num, NumMul(x, q.den)), den |-> q.den]

\* Math.round of a quotient.
RatioRound(q) ==
    MagRound(q.num.neg # q.den.neg,
             MagScale(q.num.mag, IF q.den.e > q.num.e THEN q.den.e - q.num.e ELSE 0),
             MagScale(q.den.mag, IF q.num.e > q.den.e THEN q.num.e - q.den.e ELSE 0))

\* Math.pow(x, n) for a natural n.
NumPow(x, n) ==
    NumNorm(x.neg /\ n % 2 = 1, MagPow(x.mag, n), x.e * n)

(***************************************************************************)
(* The engine's functions.  Every argument that the source types `number`  *)
(* is an exact number; month counts are naturals.                          *)
(***************************************************************************)
One == NumOfInt(1)

\* `rate / 100 / 12`: an annual percentage as a monthly rate.
MonthlyRate(annualRate) == NumDiv12(NumDiv100(annualRate))

\* `price * (percent / 100)`
PercentOf(price, percent) == NumMul(price, NumDiv100(percent))

\* A slip of the exponent: one month too many.
FuturePriceOfOneMore(currentPrice, monthlyRate, months) ==
    NumMul(currentPrice, NumPow(NumAdd(One, monthlyRate), months + 1))

\* A slip of the sign: the monthly rate is taken off the price.
FuturePriceOfShrinking(currentPrice, monthlyRate, months) ==
    NumMul(currentPrice, NumPow(NumAdd(One, NumNeg(monthlyRate)), months))

\* `currentPrice * Math.pow(1 + monthlyRate, months)`
FuturePriceOf(currentPrice, monthlyRate, months) ==
    NumMul(currentPrice, NumPow(NumAdd(One, monthlyRate), months))

calculateFuturePrice(currentPrice, annualGrowthRate, months) ==
    FuturePriceOf(currentPrice, MonthlyRate(annualGrowthRate), months)

\* A slip of the order: the contribution is added first and earns the month's
\* interest.
SavingsBodyContributionFirst(st, monthlyGrowthRate, monthlyInterestRate) ==
    LET withSaving == NumAdd(st.totalSavings, st.currentSaving)
    IN  [totalSavings |-> NumMul(withSaving, NumAdd(One, monthlyInterestRate)),
         currentSaving |-> NumMul(st.currentSaving, NumAdd(One, monthlyGrowthRate))]

\* A slip of the sign: the contribution is taken out of the balance.
SavingsBodyWithdraw(st, monthlyGrowthRate, monthlyInterestRate) ==
    LET withInterest == NumMul(st.totalSavings, NumAdd(One, monthlyInterestRate))
    IN  [totalSavings |-> NumAdd(withInterest, NumNeg(st.currentSaving)),
         currentSaving |-> NumMul(st.currentSaving, NumAdd(One, monthlyGrowthRate))]

\* One pass of the body of the loop of calculateSavingsWithGrowth, on its
\* locals st = [totalSavings, currentSaving].
SavingsBody(st, monthlyGrowthRate, monthlyInterestRate) ==
    LET withInterest == NumMul(st.totalSavings, NumAdd(One, monthlyInterestRate))
        withSaving == NumAdd(withInterest, st.currentSaving)
    IN  [totalSavings |-> withSaving,
         currentSaving |-> NumMul(st.currentSaving, NumAdd(One, monthlyGrowthRate))]

RECURSIVE SavingsLoop(_, _, _, _)
\* n passes of the loop `for (let i = 0; i < months; i++)`.
SavingsLoop(st, n, monthlyGrowthRate, monthlyInterestRate) ==
    IF n <= 0 THEN st
    ELSE IF n = 1 THEN SavingsBody(st, monthlyGrowthRate, monthlyInterestRate)
    ELSE LET h == SavingsLoop(st, n \div 2, monthlyGrowthRate, monthlyInterestRate)
         IN  IF h.totalSavings.e < 0 THEN h
             ELSE SavingsLoop(h, n - (n \div 2), monthlyGrowthRate, monthlyInterestRate)

calculateSavingsWithGrowth(initialMonthlySaving, annualSalaryGrowthRate, months, initialSavings, annualInterestRate) ==
    LET monthlyGrowthRate == MonthlyRate(annualSalaryGrowthRate)
        monthlyInterestRate == MonthlyRate(annualInterestRate)
        st == [totalSavings |-> initialSavings, currentSaving |-> initialMonthlySaving]
    IN  SavingsLoop(st, months, monthlyGrowthRate, monthlyInterestRate).totalSavings

\* `const maxMonths = 600` of calculateMonthsToTarget.
maxMonths == 600

\* The locals of calculateMonthsToTarget as it enters its loop; a is the record
\* of its arguments.
SearchLocals(a) ==
    [totalSavings |-> a.initialSavings,
     currentSaving |-> a.monthlySavings,
     currentApartmentPrice |-> a.currentPrice,
     months |-> 0]

\* A slip of the comparison: only a balance above the target counts.
SearchReachedStrictly(st, a) ==
    NumCmp(st.totalSavings, PercentOf(st.currentApartmentPrice, a.targetPercent)) > 0

\* `totalSavings >= currentApartmentPrice * (targetPercent / 100)`
SearchReached(st, a) ==
    NumGeq(st.totalSavings, PercentOf(st.currentApartmentPrice, a.targetPercent))

\* A slip of the loop condition: one pass too many.
SearchContinuesOneMore(st) == st.months <= maxMonths

\* `months < maxMonths`
SearchContinues(st) == st.months < maxMonths

\* A slip of the last line: the month count instead of the sentinel.
InfeasibleAsMonths == maxMonths

\* `return -1; // Невозможно накопить`
Infeasible == -1

\* One pass of the body of `while (months < maxMonths)`, up to `months++`.
SearchBody(st, a) ==
    LET monthlyPriceGrowth == MonthlyRate(a.priceGrowthRate)
        monthlySalaryGrowth == MonthlyRate(a.salaryGrowthRate)
        monthlyInterestRate == MonthlyRate(a.savingsInterestRate)
        withInterest == NumMul(st.totalSavings, NumAdd(One, monthlyInterestRate))
    IN  [totalSavings |-> NumAdd(withInterest, st.currentSaving),
         currentSaving |-> NumMul(st.currentSaving, NumAdd(One, monthlySalaryGrowth)),
         currentApartmentPrice |->
             NumMul(st.currentApartmentPrice, NumAdd(One, monthlyPriceGrowth)),
         months |-> st.months + 1]

\* The test that ends the loop, on the locals b that the body has left:
\* `if (totalSavings >= ...) { return months; }`.
SearchTest(b, a) ==
    IF SearchReached(b, a)
    THEN [st |-> b, returned |-> TRUE, value |-> b.months]
    ELSE [st |-> b, returned |-> FALSE, value |-> Infeasible]

\* One evaluation of the loop condition and, where it holds, of the body and
\* of the test that ends it; r = [st, returned, value].
SearchPass(r, a) ==
    IF r.returned THEN r
    ELSE IF ~SearchContinues(r.st)
    THEN [st |-> r.st, returned |-> TRUE, value |-> Infeasible]
    ELSE SearchTest(SearchBody(r.st, a), a)

RECURSIVE SearchLoop(_, _, _)
\* At most n evaluations of the loop condition.
SearchLoop(r, n, a) ==
    IF r.returned \/ n <= 0 THEN r
    ELSE IF n = 1 THEN SearchPass(r, a)
    ELSE LET h == SearchLoop(r, n \div 2, a)
         IN  IF h.returned THEN h ELSE SearchLoop(h, n - (n \div 2), a)

\* calculateMonthsToTarget on the record a of its arguments (targetAmount is
\* an argument the function never reads).
calculateMonthsToTarget(a) ==
    IF SearchReached(SearchLocals(a), a) THEN 0
    ELSE SearchLoop([st |-> SearchLocals(a), returned |-> FALSE, value |-> Infeasible],
                    maxMonths + 2, a).value

\* `maxMonths: number = 120` of generateMonthlyProjection.
defaultMaxMonths == 120

\* The locals of generateMonthlyProjection as it enters its loop.
ProjectionLocals(inputs) ==
    [projection |-> <<>>,
     totalSavings |-> inputs.initialSavings,
     currentSaving |-> inputs.monthlySavings,
     currentApartmentPrice |-> inputs.apartmentPrice,
     month |-> 0]

\* A slip of the loop condition: the last month is left out.
ProjectionContinuesBelow(st, maxMonthsArg) == st.month < maxMonthsArg

\* `month <= maxMonths`
ProjectionContinues(st, maxMonthsArg) == st.month <= maxMonthsArg

\* A slip of the point: the difference of the rounded fields.
ProjectionPointOfRounded(st, inputs) ==
    LET downPaymentTarget == PercentOf(st.currentApartmentPrice, inputs.downPaymentPercent)
    IN  [month |-> st.month,
         apartmentPrice |-> MathRound(st.currentApartmentPrice),
         totalSavings |-> MathRound(st.totalSavings),
         monthlySaving |-> MathRound(st.currentSaving),
         downPaymentTarget |-> MathRound(downPaymentTarget),
         surplus |-> NumSub(MathRound(st.totalSavings), MathRound(downPaymentTarget))]

\* The point that one pass pushes (lines 386-395).
ProjectionPoint(st, inputs) ==
    LET downPaymentTarget == PercentOf(st.currentApartmentPrice, inputs.downPaymentPercent)
    IN  [month |-> st.month,
         apartmentPrice |-> MathRound(st.currentApartmentPrice),
         totalSavings |-> MathRound(st.totalSavings),
         monthlySaving |-> MathRound(st.currentSaving),
         downPaymentTarget |-> MathRound(downPaymentTarget),
         surplus |-> MathRound(NumSub(st.totalSavings, downPaymentTarget))]

\* A slip of the recurrence: the rounded values are carried into the next
\* month.
ProjectionBodyFromRounded(st, inputs) ==
    LET point == ProjectionPoint(st, inputs)
        withInterest == NumMul(point.totalSavings,
                               NumAdd(One, MonthlyRate(inputs.savingsInterestRate)))
    IN  [projection |-> Append(st.projection, point),
         totalSavings |-> NumAdd(withInterest, st.currentSaving),
         currentSaving |->
             NumMul(st.currentSaving, NumAdd(One, MonthlyRate(inputs.salaryGrowthRate))),
         currentApartmentPrice |->
             NumMul(point.apartmentPrice,
                    NumAdd(One, MonthlyRate(inputs.priceGrowthRate))),
         month |-> st.month + 1]

\* One pass of the body of `for (let month = 0; month <= maxMonths; month++)`.
ProjectionBody(st, inputs) ==
    LET monthlyPriceGrowth == MonthlyRate(inputs.priceGrowthRate)
        monthlySalaryGrowth == MonthlyRate(inputs.salaryGrowthRate)
        monthlyInterestRate == MonthlyRate(inputs.savingsInterestRate)
        withInterest == NumMul(st.totalSavings, NumAdd(One, monthlyInterestRate))
    IN  [projection |-> Append(st.projection, ProjectionPoint(st, inputs)),
         totalSavings |-> NumAdd(withInterest, st.currentSaving),
         currentSaving |-> NumMul(st.currentSaving, NumAdd(One, monthlySalaryGrowth)),
         currentApartmentPrice |->
             NumMul(st.currentApartmentPrice, NumAdd(One, monthlyPriceGrowth)),
         month |-> st.month + 1]

RECURSIVE ProjectionLoop(_, _, _, _)
\* At most n passes of the loop.
ProjectionLoop(st, n, inputs, maxMonthsArg) ==
    IF n <= 0 \/ ~ProjectionContinues(st, maxMonthsArg) THEN st
    ELSE IF n = 1 THEN ProjectionBody(st, inputs)
    ELSE LET h == ProjectionLoop(st, n \div 2, inputs, maxMonthsArg)
         IN  IF h.month < 0 THEN h
             ELSE ProjectionLoop(h, n - (n \div 2), inputs, maxMonthsArg)

generateMonthlyProjection(inputs, maxMonthsArg) ==
    ProjectionLoop(ProjectionLocals(inputs), maxMonthsArg + 2, inputs, maxMonthsArg).projection

\* calculateMortgagePayment, for a term of at least one month and a rate
\* that is zero or leaves (1 + monthlyRate)^numPayments different from 1.
\* A slip of the denominator: the growth itself, not the growth less 1.
MortgageQuotientOverGrowth(principal, monthlyRate, growth) ==
    NumDivide(NumMul(principal, NumMul(monthlyRate, growth)), growth)

\* Lines 334-337 of calculateMortgagePayment, growth being
\* `Math.pow(1 + monthlyRate, numPayments)`.
MortgageQuotient(principal, monthlyRate, growth) ==
    NumDivide(NumMul(principal, NumMul(monthlyRate, growth)), NumSub(growth, One))

\* A slip of the guard: the rate is never taken for zero.
MortgageRateNeverZero(monthlyRate) == NumLt(monthlyRate, monthlyRate)

\* A slip of the guard: every rate is taken for zero.
MortgageRateAlwaysZero(monthlyRate) == NumGeq(monthlyRate, monthlyRate)

\* `monthlyRate === 0`
MortgageRateIsZero(monthlyRate) == monthlyRate = NumOfInt(0)

\* Lines 328-337, on the monthly rate and the number of payments.
MortgageOfMonthly(principal, monthlyRate, numPayments) ==
    IF MortgageRateIsZero(monthlyRate)
    THEN NumDivide(principal, NumOfInt(numPayments))
    ELSE MortgageQuotient(principal, monthlyRate,
                          NumPow(NumAdd(One, monthlyRate), numPayments))

calculateMortgagePayment(principal, annualRate, termYears) ==
    MortgageOfMonthly(principal, MonthlyRate(annualRate), termYears * 12)

\* A slip of the order: the factor grows before it is added.
RecommendedBodyGrowFirst(st, monthlySalaryGrowth) ==
    [multiplier |->
        NumAdd(st.multiplier, NumMul(st.growthFactor, NumAdd(One, monthlySalaryGrowth))),
     growthFactor |-> NumMul(st.growthFactor, NumAdd(One, monthlySalaryGrowth))]

\* One pass of the loop of calculateRecommendedSavings.
RecommendedBody(st, monthlySalaryGrowth) ==
    [multiplier |-> NumAdd(st.multiplier, st.growthFactor),
     growthFactor |-> NumMul(st.growthFactor, NumAdd(One, monthlySalaryGrowth))]

RECURSIVE RecommendedLoop(_, _, _)
\* n passes of the loop.
RecommendedLoop(st, n, monthlySalaryGrowth) ==
    IF n <= 0 THEN st
    ELSE IF n = 1 THEN RecommendedBody(st, monthlySalaryGrowth)
    ELSE LET h == RecommendedLoop(st, n \div 2, monthlySalaryGrowth)
         IN  IF h.multiplier.e < 0 THEN h
             ELSE RecommendedLoop(h, n - (n \div 2), monthlySalaryGrowth)

\* A slip of the target: the argument targetAmount is divided, not the down
\* payment of the price after targetMonths.
calculateRecommendedSavingsOfTarget(targetAmount, currentPrice, priceGrowthRate, salaryGrowthRate, targetMonthsArg, downPaymentPercent) ==
    NumDivide(targetAmount,
              RecommendedLoop([multiplier |-> NumOfInt(0), growthFactor |-> One],
                              targetMonthsArg, MonthlyRate(salaryGrowthRate)).multiplier)

\* calculateRecommendedSavings (targetAmount is an argument the function never
\* reads), for a multiplier that is not zero.
calculateRecommendedSavings(targetAmount, currentPrice, priceGrowthRate, salaryGrowthRate, targetMonthsArg, downPaymentPercent) ==
    LET futurePrice == calculateFuturePrice(currentPrice, priceGrowthRate, targetMonthsArg)
        targetDownPayment == PercentOf(futurePrice, downPaymentPercent)
        st == RecommendedLoop([multiplier |-> NumOfInt(0), growthFactor |-> One],
                              targetMonthsArg, MonthlyRate(salaryGrowthRate))
    IN  NumDivide(targetDownPayment, st.multiplier)

\* `const targetMonths = 24` of calculateAll.
targetMonths == 24

\* The arguments of the two searches of calculateAll.
DownPaymentSearch(inputs) ==
    [targetAmount |-> PercentOf(inputs.apartmentPrice, inputs.downPaymentPercent),
     currentPrice |-> inputs.apartmentPrice,
     priceGrowthRate |-> inputs.priceGrowthRate,
     monthlySavings |-> inputs.monthlySavings,
     salaryGrowthRate |-> inputs.salaryGrowthRate,
     targetPercent |-> inputs.downPaymentPercent,
     initialSavings |-> inputs.initialSavings,
     savingsInterestRate |-> inputs.savingsInterestRate]

\* A slip of the second search: a tenth of the price as its target.
FullPriceSearchOfTenth(inputs) ==
    [targetAmount |-> inputs.apartmentPrice,
     currentPrice |-> inputs.apartmentPrice,
     priceGrowthRate |-> inputs.priceGrowthRate,
     monthlySavings |-> inputs.monthlySavings,
     salaryGrowthRate |-> inputs.salaryGrowthRate,
     targetPercent |-> NumOfInt(10),
     initialSavings |-> inputs.initialSavings,
     savingsInterestRate |-> inputs.savingsInterestRate]

\* Lines 423-433: the search for the whole price.
FullPriceSearch(inputs) ==
    [targetAmount |-> inputs.apartmentPrice,
     currentPrice |-> inputs.apartmentPrice,
     priceGrowthRate |-> inputs.priceGrowthRate,
     monthlySavings |-> inputs.monthlySavings,
     salaryGrowthRate |-> inputs.salaryGrowthRate,
     targetPercent |-> NumOfInt(100),
     initialSavings |-> inputs.initialSavings,
     savingsInterestRate |-> inputs.savingsInterestRate]

\* Lines 412-433 of calculateAll.
AllSearches(inputs) ==
    [monthsToDownPayment |-> calculateMonthsToTarget(DownPaymentSearch(inputs)),
     monthsToFullPrice |-> calculateMonthsToTarget(FullPriceSearch(inputs))]

\* A slip of the condition: the result of the search is never used.
DownPaymentNeverAhead(months) == months > maxMonths

\* `monthsToDownPayment > 0`
DownPaymentAhead(months) == months > 0

\* A slip of the price: the down payment is taken from the price of the
\* inputs.
AllPriceOfCurrent(inputs, futureApartmentPrice) ==
    [futureApartmentPrice |-> futureApartmentPrice,
     requiredDownPayment |-> PercentOf(inputs.apartmentPrice, inputs.downPaymentPercent),
     loanAmount |->
         NumSub(futureApartmentPrice,
                PercentOf(inputs.apartmentPrice, inputs.downPaymentPercent))]

\* Lines 442-445, on the future price.
AllPriceOf(inputs, futureApartmentPrice) ==
    [futureApartmentPrice |-> futureApartmentPrice,
     requiredDownPayment |-> PercentOf(futureApartmentPrice, inputs.downPaymentPercent),
     loanAmount |->
         NumSub(futureApartmentPrice,
                PercentOf(futureApartmentPrice, inputs.downPaymentPercent))]

\* Lines 436-445.
AllPrice(inputs, search) ==
    AllPriceOf(inputs,
        IF DownPaymentAhead(search.monthsToDownPayment)
        THEN calculateFuturePrice(inputs.apartmentPrice, inputs.priceGrowthRate,
                                  search.monthsToDownPayment)
        ELSE inputs.apartmentPrice)

\* Lines 448-458.
\* Lines 454-458, on the monthly payment m.
AllMortgageTotals(inputs, price, m) ==
    [monthlyMortgagePayment |-> m,
     totalMortgagePayment |-> RatioMul(m, NumOfInt(inputs.mortgageTerm * 12)),
     mortgageOverpayment |->
         RatioSub(RatioMul(m, NumOfInt(inputs.mortgageTerm * 12)), price.loanAmount)]

AllMortgage(inputs, price) ==
    AllMortgageTotals(inputs, price,
        calculateMortgagePayment(price.loanAmount, inputs.mortgageRate,
                                 inputs.mortgageTerm))

\* A slip of the projected savings: the savings of the month before.
AllSavingsOfMonthBefore(inputs, search, price) ==
    [recommendedMonthlySavings |->
         calculateRecommendedSavings(price.requiredDownPayment, inputs.apartmentPrice,
             inputs.priceGrowthRate, inputs.salaryGrowthRate, targetMonths,
             inputs.downPaymentPercent),
     projectedSavings |->
         IF DownPaymentAhead(search.monthsToDownPayment)
         THEN calculateSavingsWithGrowth(inputs.monthlySavings, inputs.salaryGrowthRate,
                  search.monthsToDownPayment - 1, inputs.initialSavings,
                  inputs.savingsInterestRate)
         ELSE inputs.initialSavings]

\* Lines 461-481.
AllSavings(inputs, search, price) ==
    [recommendedMonthlySavings |->
         calculateRecommendedSavings(price.requiredDownPayment, inputs.apartmentPrice,
             inputs.priceGrowthRate, inputs.salaryGrowthRate, targetMonths,
             inputs.downPaymentPercent),
     projectedSavings |->
         IF DownPaymentAhead(search.monthsToDownPayment)
         THEN calculateSavingsWithGrowth(inputs.monthlySavings, inputs.salaryGrowthRate,
                  search.monthsToDownPayment, inputs.initialSavings,
                  inputs.savingsInterestRate)
         ELSE inputs.initialSavings]

\* Lines 484-497: the projection and the record that calculateAll returns.
AllResults(inputs, search, price, mortgage, savings) ==
    [futureApartmentPrice |-> MathRound(price.futureApartmentPrice),
     requiredDownPayment |-> MathRound(price.requiredDownPayment),
     monthsToDownPayment |-> search.monthsToDownPayment,
     monthsToFullPrice |-> search.monthsToFullPrice,
     monthlyMortgagePayment |-> RatioRound(mortgage.monthlyMortgagePayment),
     totalMortgagePayment |-> RatioRound(mortgage.totalMortgagePayment),
     mortgageOverpayment |-> RatioRound(mortgage.mortgageOverpayment),
     recommendedMonthlySavings |-> RatioRound(savings.recommendedMonthlySavings),
     projectedSavings |-> MathRound(savings.projectedSavings),
     monthlyProjection |-> generateMonthlyProjection(inputs, defaultMaxMonths)]

\* Lines 448-497, on the results of lines 412-445.
AllAfterPrice(inputs, search, price) ==
    AllResults(inputs, search, price, AllMortgage(inputs, price),
               AllSavings(inputs, search, price))

\* Lines 436-497, on the results of the searches.
AllAfterSearch(inputs, search) == AllAfterPrice(inputs, search, AllPrice(inputs, search))

calculateAll(inputs) == AllAfterSearch(inputs, AllSearches(inputs))

(***************************************************************************)
(* The state: one call of one function of the engine.  call names the      *)
(* function, args is the record of its arguments, pc the place in its      *)
(* code, loc the record of its locals, ret the value it returns.           *)
(***************************************************************************)
VARIABLES call, args, pc, loc, ret

vars == <<call, args, pc, loc, ret>>

NoLocals == [none |-> TRUE]
NoValue == "none"

(***************************************************************************)
(* calculateMonthsToTarget, one action for the code before the loop, one   *)
(* per pass of the loop and one for the code after it.                     *)
(***************************************************************************)
SearchArgs(price, priceGrowth, saving, salaryGrowth, percent, initial, interest) ==
    [targetAmount |-> PercentOf(NumOfInt(price), NumOfInt(percent)),
     currentPrice |-> NumOfInt(price),
     priceGrowthRate |-> NumOfInt(priceGrowth),
     monthlySavings |-> NumOfInt(saving),
     salaryGrowthRate |-> NumOfInt(salaryGrowth),
     targetPercent |-> NumOfInt(percent),
     initialSavings |-> NumOfInt(initial),
     savingsInterestRate |-> NumOfInt(interest)]

\* Calls that end within a few months: ordinary rates, growing and falling
\* prices, fractional targets, ties at month 0 and later.
SearchShortCalls ==
    {SearchArgs(p, pg, c, sg, pct, s0, i) :
        p \in {600, 1000}, pg \in {-12, 0, 12}, c \in {100, 250}, sg \in {0, 60},
        pct \in {20, 100}, s0 \in {0, 200}, i \in {0, 10}}

\* Calls that run to the ceiling or close to it: a contribution of 0 or 1.
SearchLongCalls ==
    {SearchArgs(p, 0, c, 0, 100, s0, 0) : p \in {600, 601}, c \in {0, 1}, s0 \in {0, 1}}
    \cup {SearchArgs(1000, pg, 0, sg, pct, 0, i) :
            pg \in {1200, 2400}, sg \in {0, 12}, pct \in {20, 100}, i \in {0, 12}}

InitSearch ==
    /\ call = "calculateMonthsToTarget"
    /\ args \in SearchShortCalls \cup SearchLongCalls
    /\ pc = "start"
    /\ loc = NoLocals
    /\ ret = NoValue

\* Lines 283-297: the locals, and the test of the initial savings.
SearchStart ==
    /\ call = "calculateMonthsToTarget" /\ pc = "start"
    /\ loc' = SearchLocals(args)
    /\ IF SearchReached(SearchLocals(args), args)
       THEN pc' = "done" /\ ret' = 0
       ELSE pc' = "loop" /\ ret' = ret
    /\ UNCHANGED <<call, args>>

\* Lines 299-311: one pass of the loop.
SearchIterate ==
    /\ call = "calculateMonthsToTarget" /\ pc = "loop"
    /\ SearchContinues(loc)
    /\ loc' = SearchBody(loc, args)
    /\ IF SearchReached(loc', args)
       THEN pc' = "done" /\ ret' = loc'.months
       ELSE pc' = "loop" /\ ret' = ret
    /\ UNCHANGED <<call, args>>

\* Line 313: the loop is left without a return.
SearchGiveUp ==
    /\ call = "calculateMonthsToTarget" /\ pc = "loop"
    /\ ~SearchContinues(loc)
    /\ pc' = "done" /\ ret' = Infeasible
    /\ UNCHANGED <<call, args, loc>>

NextSearch == SearchStart \/ SearchIterate \/ SearchGiveUp

SpecSearch == InitSearch /\ [][NextSearch]_vars

(***************************************************************************)
(* What the claims about the search speak of: the balance after k steps    *)
(* (interest, then the contribution, then the growth of the contribution)  *)
(* and the price grown k months, month after month.  r is [st, price, k],  *)
(* the balance and the price at month k; the run stops at the first month  *)
(* whose balance is not below its target.                                  *)
(***************************************************************************)
MonthZero(a) ==
    [st |-> [totalSavings |-> a.initialSavings, currentSaving |-> a.monthlySavings],
     price |-> a.currentPrice,
     k |-> 0]

BelowTarget(r, a) == NumLt(r.st.totalSavings, PercentOf(r.price, a.targetPercent))

NextMonth(r, a) ==
    [st |-> SavingsBody(r.st, MonthlyRate(a.salaryGrowthRate),
                        MonthlyRate(a.savingsInterestRate)),
     price |-> NumMul(r.price, NumAdd(One, MonthlyRate(a.priceGrowthRate))),
     k |-> r.k + 1]

RECURSIVE MonthsBelow(_, _, _)
\* From month r.k on, at most n months ahead: the first month that is not
\* below its target, or month r.k + n when all of r.k .. r.k + n - 1 are below.
MonthsBelow(r, n, a) ==
    IF n <= 0 \/ ~BelowTarget(r, a) THEN r
    ELSE IF n = 1 THEN NextMonth(r, a)
    ELSE LET h == MonthsBelow(r, n \div 2, a)
         IN  IF h.k < r.k + (n \div 2) THEN h ELSE MonthsBelow(h, n - (n \div 2), a)

SearchDone == call = "calculateMonthsToTarget" /\ pc = "done"

\* The ceiling of the search, as the specification states it (600 months).
CeilingMonths == 600

\* C1: a result m >= 1 is the smallest month count at which the savings meet
\* the moving target: the balance after m steps is at least the price grown m
\* months times targetPercent/100 (also as calculateSavingsWithGrowth and
\* calculateFuturePrice compute them), and at every month 0..m-1 the balance
\* is strictly below that month's target.
C1_SmallestMonth ==
    (SearchDone /\ ret >= 1) =>
        LET r == MonthsBelow(MonthZero(args), ret, args)
        IN  /\ r.k = ret
            /\ ~BelowTarget(r, args)
            /\ NumGeq(calculateSavingsWithGrowth(args.monthlySavings,
                          args.salaryGrowthRate, ret, args.initialSavings,
                          args.savingsInterestRate),
                      PercentOf(calculateFuturePrice(args.currentPrice,
                                    args.priceGrowthRate, ret),
                                args.targetPercent))

\* C1's case: a search that ended in the loop after two or more passes, with
\* a moving target and a fractional balance.
C1_Witness ==
    /\ SearchDone /\ ret >= 2
    /\ loc.totalSavings.e > 0
    /\ args.priceGrowthRate # NumOfInt(0)

\* C2: the loop makes at most 600 passes, the result is -1 or in 0..600, and
\* it is -1 exactly when the balance is below the target at month 0 and at
\* every month 1..600.
C2_CeilingAndSentinel ==
    call = "calculateMonthsToTarget" =>
        /\ pc # "start" => loc.months \in 0..CeilingMonths
        /\ pc = "done" =>
            /\ ret \in {-1} \cup 0..CeilingMonths
            /\ (ret = -1) <=>
                 LET r == MonthsBelow(MonthZero(args), CeilingMonths + 1, args)
                 IN  r.k = CeilingMonths + 1

\* C2's cases: the ceiling reached without success, and success at the
\* ceiling itself.
C2_Witness == SearchDone /\ ret = -1 /\ loc.months = CeilingMonths /\ args.monthlySavings # NumOfInt(0)

C2_WitnessAtCeiling == SearchDone /\ ret = CeilingMonths

C4_ZeroIffInitialMeets ==
    SearchDone =>
        /\ (ret = 0) <=> NumCmp(args.initialSavings,
                                PercentOf(args.currentPrice, args.targetPercent)) >= 0
        /\ ret = 0 =>
            /\ loc.months = 0
            /\ loc.totalSavings = args.initialSavings
            /\ loc.currentSaving = args.monthlySavings
            /\ loc.currentApartmentPrice = args.currentPrice

\* C4's case: the initial savings equal the month-0 target.
C4_Witness ==
    /\ SearchDone /\ ret = 0
    /\ args.initialSavings = PercentOf(args.currentPrice, args.targetPercent)

(***************************************************************************)
(* calculateSavingsWithGrowth, pass by pass.                               *)
(***************************************************************************)
\* The largest `months` of the calls of calculateSavingsWithGrowth.
MaxSavingsMonths == 5

SavingsCalls ==
    {[initialMonthlySaving |-> NumOfInt(c),
      annualSalaryGrowthRate |-> NumOfInt(g),
      months |-> n,
      initialSavings |-> NumOfInt(s0),
      annualInterestRate |-> NumOfInt(i)] :
        c \in {0, 100, 250}, g \in {-2400, -1200, -12, 0, 60},
        n \in 0..MaxSavingsMonths, s0 \in {0, 200}, i \in {-12, 0, 10}}

InitSavings ==
    /\ call = "calculateSavingsWithGrowth"
    /\ args \in SavingsCalls
    /\ pc = "start"
    /\ loc = NoLocals
    /\ ret = NoValue

\* Lines 252-256: the locals.
SavingsStart ==
    /\ call = "calculateSavingsWithGrowth" /\ pc = "start"
    /\ loc' = [totalSavings |-> args.initialSavings,
               currentSaving |-> args.initialMonthlySaving,
               i |-> 0]
    /\ pc' = "loop"
    /\ UNCHANGED <<call, args, ret>>

\* Lines 257-264: one pass of the loop.
SavingsIterate ==
    /\ call = "calculateSavingsWithGrowth" /\ pc = "loop"
    /\ loc.i < args.months
    /\ LET b == SavingsBody(loc, MonthlyRate(args.annualSalaryGrowthRate),
                            MonthlyRate(args.annualInterestRate))
       IN  loc' = [totalSavings |-> b.totalSavings,
                   currentSaving |-> b.currentSaving,
                   i |-> loc.i + 1]
    /\ UNCHANGED <<call, args, pc, ret>>

\* Line 266.
SavingsReturn ==
    /\ call = "calculateSavingsWithGrowth" /\ pc = "loop"
    /\ ~(loc.i < args.months)
    /\ pc' = "done" /\ ret' = loc.totalSavings
    /\ UNCHANGED <<call, args, loc>>

NextSavings == SavingsStart \/ SavingsIterate \/ SavingsReturn

SpecSavings == InitSavings /\ [][NextSavings]_vars

\* x / 1200
Per1200(x) == NumNorm(x.neg, x.mag, x.e + 1)

RECURSIVE ContributionsWithInterest(_, _, _, _, _)
\* The contributions of the passes j..n-1, each c * (1 + g/1200)^j, with the
\* interest of the passes after the one that added it: (1 + r/1200)^(n-1-j).
ContributionsWithInterest(c, g, r, j, n) ==
    IF j >= n THEN NumOfInt(0)
    ELSE NumAdd(NumMul(NumMul(c, NumPow(NumAdd(One, Per1200(g)), j)),
                       NumPow(NumAdd(One, Per1200(r)), n - 1 - j)),
                ContributionsWithInterest(c, g, r, j + 1, n))

\* C7: after i passes the contribution is initialMonthlySaving *
\* (1 + salaryGrowth/1200)^i, and the balance is the initial balance with i
\* months of interest plus every contribution with the interest of the months
\* after the one it was added in (none in its own month): each pass applies
\* the interest, then adds the contribution, then grows the contribution.
C7_InterestThenContribution ==
    (call = "calculateSavingsWithGrowth" /\ pc # "start") =>
        /\ loc.currentSaving =
              NumMul(args.initialMonthlySaving,
                     NumPow(NumAdd(One, Per1200(args.annualSalaryGrowthRate)), loc.i))
        /\ loc.totalSavings =
              NumAdd(NumMul(args.initialSavings,
                            NumPow(NumAdd(One, Per1200(args.annualInterestRate)), loc.i)),
                     ContributionsWithInterest(args.initialMonthlySaving,
                         args.annualSalaryGrowthRate, args.annualInterestRate, 0, loc.i))
        /\ pc = "done" => loc.i = args.months /\ ret = loc.totalSavings

C7_Witness ==
    /\ call = "calculateSavingsWithGrowth" /\ pc = "done" /\ loc.i >= 3
    /\ args.initialMonthlySaving # NumOfInt(0)
    /\ args.initialSavings # NumOfInt(0)
    /\ args.annualInterestRate # NumOfInt(0)
    /\ args.annualSalaryGrowthRate # NumOfInt(0)

(***************************************************************************)
(* generateMonthlyProjection, pass by pass.  The money amounts of the      *)
(* inputs are whole roubles, as every writer of the form's state makes     *)
(* them (parseInt, sliders of whole steps, rounded market prices).         *)
(***************************************************************************)
\* The largest explicit maxMonths of the calls with everyday rates.
MaxProjectionMonths == 3

ProjectionInputs(price, priceGrowth, saving, salaryGrowth, percent, initial, interest) ==
    [apartmentPrice |-> NumOfInt(price),
     priceGrowthRate |-> NumOfInt(priceGrowth),
     monthlySavings |-> NumOfInt(saving),
     salaryGrowthRate |-> NumOfInt(salaryGrowth),
     downPaymentPercent |-> NumOfInt(percent),
     initialSavings |-> NumOfInt(initial),
     savingsInterestRate |-> NumOfInt(interest)]

ProjectionShortCalls ==
    {[inputs |-> ProjectionInputs(p, pg, c, sg, pct, s0, i), maxMonths |-> m] :
        p \in {1000, 1010}, pg \in {0, 60}, c \in {0, 100}, sg \in {0, 60},
        pct \in {20, 25}, s0 \in {0, 200}, i \in {0, 10},
        m \in 0..MaxProjectionMonths}

\* The calls that leave maxMonths out.
ProjectionDefaultCalls ==
    {[inputs |-> ProjectionInputs(1010, pg, c, 0, 25, 200, i),
      maxMonths |-> defaultMaxMonths] :
        pg \in {0, 1200}, c \in {0, 100}, i \in {0, 1200}}

InitProjection ==
    /\ call = "generateMonthlyProjection"
    /\ args \in ProjectionShortCalls \cup ProjectionDefaultCalls
    /\ pc = "start"
    /\ loc = NoLocals
    /\ ret = NoValue

\* Lines 376-383.
ProjectionStart ==
    /\ call = "generateMonthlyProjection" /\ pc = "start"
    /\ loc' = ProjectionLocals(args.inputs)
    /\ pc' = "loop"
    /\ UNCHANGED <<call, args, ret>>

\* Lines 385-402.
ProjectionIterate ==
    /\ call = "generateMonthlyProjection" /\ pc = "loop"
    /\ ProjectionContinues(loc, args.maxMonths)
    /\ loc' = ProjectionBody(loc, args.inputs)
    /\ UNCHANGED <<call, args, pc, ret>>

\* Line 404.
ProjectionReturn ==
    /\ call = "generateMonthlyProjection" /\ pc = "loop"
    /\ ~ProjectionContinues(loc, args.maxMonths)
    /\ pc' = "done" /\ ret' = loc.projection
    /\ UNCHANGED <<call, args, loc>>

NextProjection == ProjectionStart \/ ProjectionIterate \/ ProjectionReturn

SpecProjection == InitProjection /\ [][NextProjection]_vars

ProjectionDone == call = "generateMonthlyProjection" /\ pc = "done"

\* The unrounded down-payment target of month k: the unrounded price of the
\* month times downPaymentPercent / 100.
UnroundedTarget(inputs, k) ==
    PercentOf(calculateFuturePrice(inputs.apartmentPrice, inputs.priceGrowthRate, k),
              inputs.downPaymentPercent)

\* The unrounded savings of month k.
UnroundedSavings(inputs, k) ==
    calculateSavingsWithGrowth(inputs.monthlySavings, inputs.salaryGrowthRate, k,
                               inputs.initialSavings, inputs.savingsInterestRate)

C9_SurplusOfPointFields ==
    ProjectionDone =>
        \A k \in 1..Len(ret) :
            ret[k].surplus = NumSub(ret[k].totalSavings, ret[k].downPaymentTarget)

\* C9: the surplus of every point is the rounded difference of the
\* unrounded savings and the unrounded target of its month, which is within
\* one of the difference of the point's totalSavings and downPaymentTarget;
\* it is negative, zero or positive.
C9_SurplusOfUnrounded ==
    ProjectionDone =>
        \A k \in 1..Len(ret) :
            LET ofFields == NumSub(ret[k].totalSavings, ret[k].downPaymentTarget)
                off == NumSub(ret[k].surplus, ofFields)
            IN  /\ ret[k].surplus =
                      MathRound(NumSub(UnroundedSavings(args.inputs, k - 1),
                                       UnroundedTarget(args.inputs, k - 1)))
                /\ off \in {NumOfInt(-1), NumOfInt(0), NumOfInt(1)}

C9_Witness ==
    /\ ProjectionDone
    /\ \E k \in 1..Len(ret) :
          /\ ret[k].surplus # NumSub(ret[k].totalSavings, ret[k].downPaymentTarget)
          /\ ret[k].surplus.neg
    /\ \E k \in 1..Len(ret) : ~ret[k].surplus.neg /\ ret[k].surplus # NumOfInt(0)

\* C10: the point of month k carries the rounded
\* calculateSavingsWithGrowth(monthlySavings, salaryGrowthRate, k,
\* initialSavings, savingsInterestRate), the rounded
\* calculateFuturePrice(apartmentPrice, priceGrowthRate, k), and as target the
\* rounded product of the unrounded price and downPaymentPercent / 100.
C10_PointsOfTheFunctions ==
    ProjectionDone =>
        \A k \in 1..Len(ret) :
            /\ ret[k].totalSavings = MathRound(UnroundedSavings(args.inputs, k - 1))
            /\ ret[k].apartmentPrice =
                  MathRound(calculateFuturePrice(args.inputs.apartmentPrice,
                                                 args.inputs.priceGrowthRate, k - 1))
            /\ ret[k].downPaymentTarget = MathRound(UnroundedTarget(args.inputs, k - 1))

C10_Witness ==
    /\ ProjectionDone
    /\ Len(ret) = MaxProjectionMonths + 1
    /\ args.inputs.priceGrowthRate # NumOfInt(0)
    /\ args.inputs.savingsInterestRate # NumOfInt(0)
    /\ args.inputs.salaryGrowthRate # NumOfInt(0)
    /\ args.inputs.monthlySavings # NumOfInt(0)
    /\ ret[Len(ret)].downPaymentTarget #
          MathRound(PercentOf(ret[Len(ret)].apartmentPrice, args.inputs.downPaymentPercent))

(***************************************************************************)
(* calculateAll, statement by statement.                                   *)
(***************************************************************************)
CalculatorInputs(price, priceGrowth, saving, salaryGrowth, percent, initial, interest, mortgage, term) ==
    [apartmentPrice |-> NumOfInt(price),
     priceGrowthRate |-> NumOfInt(priceGrowth),
     salary |-> NumOfInt(150000),
     salaryGrowthRate |-> NumOfInt(salaryGrowth),
     monthlySavings |-> NumOfInt(saving),
     initialSavings |-> NumOfInt(initial),
     savingsInterestRate |-> NumOfInt(interest),
     mortgageRate |-> NumOfInt(mortgage),
     downPaymentPercent |-> NumOfInt(percent),
     mortgageTerm |-> term]

AllCalls ==
    {CalculatorInputs(1010, pg, c, 0, 25, s0, i, mr, 1) :
        pg \in {0, 1200}, c \in {0, 100}, s0 \in {0, 200, 300}, i \in {0, 1200},
        mr \in {0, 18}}
    \cup {CalculatorInputs(1000, 0, c, sg, 20, 0, 0, 6, 20) :
            c \in {0, 50}, sg \in {0, 1200}}
    \cup {CalculatorInputs(1010, 0, 252, 0, 25, 0, 0, 0, 1),
          CalculatorInputs(1000001, 0, 100000, 0, 20, 0, 0, 0, 1),
          CalculatorInputs(1000, 0, 1, 0, 20, 0, 0, 0, 1),
          CalculatorInputs(1000, 0, 500, 0, 100, 0, 0, 0, 1),
          CalculatorInputs(1010, -600, 100, 0, 25, 0, 0, 0, 1),
          CalculatorInputs(1010, 0, 253, 0, 25, 0, 0, 0, 1)}

InitAll ==
    /\ call = "calculateAll"
    /\ args \in AllCalls
    /\ pc = "start"
    /\ loc = NoLocals
    /\ ret = NoValue

\* Lines 412-433.
AllSearch ==
    /\ call = "calculateAll" /\ pc = "start"
    /\ loc' = [search |-> AllSearches(args)]
    /\ pc' = "searched"
    /\ UNCHANGED <<call, args, ret>>

\* Lines 436-445.
AllPriced ==
    /\ call = "calculateAll" /\ pc = "searched"
    /\ loc' = [search |-> loc.search, price |-> AllPrice(args, loc.search)]
    /\ pc' = "priced"
    /\ UNCHANGED <<call, args, ret>>

\* Lines 448-458.
AllMortgaged ==
    /\ call = "calculateAll" /\ pc = "priced"
    /\ loc' = [search |-> loc.search, price |-> loc.price,
               mortgage |-> AllMortgage(args, loc.price)]
    /\ pc' = "mortgaged"
    /\ UNCHANGED <<call, args, ret>>

\* Lines 461-481.
AllSaved ==
    /\ call = "calculateAll" /\ pc = "mortgaged"
    /\ loc' = [search |-> loc.search, price |-> loc.price, mortgage |-> loc.mortgage,
               savings |-> AllSavings(args, loc.search, loc.price)]
    /\ pc' = "saved"
    /\ UNCHANGED <<call, args, ret>>

\* Lines 484-497.
AllReturn ==
    /\ call = "calculateAll" /\ pc = "saved"
    /\ ret' = AllResults(args, loc.search, loc.price, loc.mortgage, loc.savings)
    /\ pc' = "done"
    /\ UNCHANGED <<call, args, loc>>

NextAll == AllSearch \/ AllPriced \/ AllMortgaged \/ AllSaved \/ AllReturn

SpecAll == InitAll /\ [][NextAll]_vars

AllDone == call = "calculateAll" /\ pc = "done"

\* The fields of CalculationResults.
ResultFields ==
    {"futureApartmentPrice", "requiredDownPayment", "monthsToDownPayment",
     "monthsToFullPrice", "monthlyMortgagePayment", "totalMortgagePayment",
     "mortgageOverpayment", "recommendedMonthlySavings", "projectedSavings",
     "monthlyProjection"}

\* The rounded amounts of CalculationResults.
AmountFields ==
    ResultFields \ {"monthsToDownPayment", "monthsToFullPrice", "monthlyProjection"}

\* C6: when the down-payment search of calculateAll gives 0 or -1 the
\* record carries the rounded input price as futureApartmentPrice and the
\* rounded initialSavings as projectedSavings, and when it gives m > 0 the
\* rounded calculateFuturePrice(apartmentPrice, priceGrowthRate, m); in each
\* case the record has every field of CalculationResults, whole amounts and
\* the projection of the default length.
C6_PriceWhenNothingAhead ==
    AllDone =>
        /\ ret.monthsToDownPayment = calculateMonthsToTarget(DownPaymentSearch(args))
        /\ ret.monthsToDownPayment \in {0, -1} =>
              /\ ret.futureApartmentPrice = MathRound(args.apartmentPrice)
              /\ ret.projectedSavings = MathRound(args.initialSavings)
        /\ ret.monthsToDownPayment > 0 =>
              ret.futureApartmentPrice =
                  MathRound(calculateFuturePrice(args.apartmentPrice,
                                args.priceGrowthRate, ret.monthsToDownPayment))
        /\ DOMAIN ret = ResultFields
        /\ \A f \in AmountFields : ret[f].e = 0
        /\ Len(ret.monthlyProjection) = defaultMaxMonths + 1

\* calculateAll has returned from an infeasible search although the price
\* grows and the initial savings earn interest.
C6_Witness ==
    /\ AllDone
    /\ ret.monthsToDownPayment = -1
    /\ args.priceGrowthRate # NumOfInt(0)
    /\ args.initialSavings # NumOfInt(0)
    /\ args.savingsInterestRate # NumOfInt(0)

\* calculateAll has returned from a search that found a month ahead, and the
\* price of that month is another than the price of the inputs.
C6_WitnessAhead ==
    /\ AllDone
    /\ ret.monthsToDownPayment > 0
    /\ ret.futureApartmentPrice # MathRound(args.apartmentPrice)

\* calculateAll has returned from a search that the initial savings met.
C6_WitnessMet ==
    /\ AllDone
    /\ ret.monthsToDownPayment = 0
    /\ args.priceGrowthRate # NumOfInt(0)

(***************************************************************************)
(* The component MortgageCalculator: its state (the inputs of the form,    *)
(* the results, the tab that is open), the effect that recalculates the    *)
(* results after the inputs changed, and what it renders of the months.    *)
(* A rendered text is the sequence of its pieces; the Russian words of the *)
(* source are written in Latin letters.                                    *)
(***************************************************************************)
\* `results` before the first recalculation (null).
NoResults == [none |-> TRUE]

getYearWord(years) ==
    LET lastDigit == years % 10
        lastTwoDigits == years % 100
    IN  IF lastTwoDigits >= 11 /\ lastTwoDigits <= 14 THEN "let"
        ELSE IF lastDigit = 1 THEN "god"
        ELSE IF lastDigit >= 2 /\ lastDigit <= 4 THEN "goda"
        ELSE "let"

formatMonths(months) ==
    IF months < 0 THEN <<"Nevozmozhno">>
    ELSE LET years == months \div 12
             remainingMonths == months % 12
         IN  IF years = 0 THEN <<ToString(remainingMonths), "mes.">>
             ELSE IF remainingMonths = 0 THEN <<ToString(years), getYearWord(years)>>
             ELSE <<ToString(years), getYearWord(years),
                    ToString(remainingMonths), "mes.">>

\* `results?.field || 0`
MonthsOrZero(results, field) ==
    IF results = NoResults THEN 0
    ELSE IF results[field] = 0 THEN 0
    ELSE results[field]

\* The line of the formulas tab that shows a month count: the number, the
\* word for months and the formatted duration in brackets.
FormulaLine(results, field) ==
    <<"=", ToString(MonthsOrZero(results, field)), "mes", "(">>
        \o formatMonths(MonthsOrZero(results, field)) \o <<")">>

\* The months of the rows of the projection table: every twelfth point and
\* the point of the down-payment month, the first eleven of them.
TableMonths(results) ==
    LET kept == {i \in 0..(Len(results.monthlyProjection) - 1) :
                    i % 12 = 0 \/ i = results.monthsToDownPayment}
        shown == IF Cardinality(kept) <= 11 THEN Cardinality(kept) ELSE 11
    IN  [k \in 1..shown |->
            CHOOSE i \in kept : Cardinality({j \in kept : j < i}) = k - 1]

TableRow(results, i) ==
    [month |-> results.monthlyProjection[i + 1].month,
     period |-> IF results.monthlyProjection[i + 1].month = 0 THEN <<"Sejchas">>
                ELSE formatMonths(results.monthlyProjection[i + 1].month),
     highlighted |-> results.monthlyProjection[i + 1].month = results.monthsToDownPayment]

\* What the component shows of the two month counts.
Render(st) ==
    [formulas |->
        IF st.tab = "formulas"
        THEN [monthsToDownPayment |-> FormulaLine(st.results, "monthsToDownPayment"),
              monthsToFullPrice |-> FormulaLine(st.results, "monthsToFullPrice")]
        ELSE [monthsToDownPayment |-> <<>>, monthsToFullPrice |-> <<>>],
     summary |->
        IF st.results # NoResults
        THEN [monthsToDownPayment |-> formatMonths(st.results.monthsToDownPayment),
              monthsToFullPrice |-> formatMonths(st.results.monthsToFullPrice)]
        ELSE [monthsToDownPayment |-> <<>>, monthsToFullPrice |-> <<>>],
     table |->
        IF st.results # NoResults /\ Len(st.results.monthlyProjection) > 0
        THEN LET months == TableMonths(st.results)
             IN  [k \in 1..Len(months) |-> TableRow(st.results, months[k])]
        ELSE <<>>]

\* The inputs of the form once the three sliders of the growth and interest
\* rates stand at 0 and the amounts below have been entered.
FormInputs(saving, initial) ==
    CalculatorInputs(10000000, 0, saving, 0, 20, initial, 0, 18, 20)

\* What the model types into the fields of the monthly and initial savings.
TypedSavings == {0, 50000, 100000}
TypedInitial == {0, 2000000, 10000000}

Tabs == {"property", "income", "mortgage", "formulas"}

InitUI ==
    /\ call = "MortgageCalculator"
    /\ args = NoLocals
    /\ pc = "idle"
    /\ loc = [inputs |-> FormInputs(50000, 0),
              results |-> calculateAll(FormInputs(50000, 0)),
              tab |-> "property"]
    /\ ret = Render(loc)

\* updateInput of a text field (lines 155-160, 514, 561): the inputs are
\* replaced and the component renders again, the effect pending.
UpdateInput ==
    /\ call = "MortgageCalculator" /\ pc = "idle"
    /\ \E key \in {"monthlySavings", "initialSavings"} :
         \E value \in (IF key = "monthlySavings" THEN TypedSavings ELSE TypedInitial) :
            loc' = [loc EXCEPT !.inputs[key] = NumOfInt(value)]
    /\ ret' = Render(loc')
    /\ pc' = "pending"
    /\ UNCHANGED <<call, args>>

\* A click on a tab (lines 205-223).
SelectTab ==
    /\ call = "MortgageCalculator" /\ pc = "idle"
    /\ \E tab \in Tabs : loc' = [loc EXCEPT !.tab = tab]
    /\ ret' = Render(loc')
    /\ UNCHANGED <<call, args, pc>>

\* The effect of lines 162-165.
Recalculate ==
    /\ call = "MortgageCalculator" /\ pc = "pending"
    /\ loc' = [loc EXCEPT !.results = calculateAll(loc.inputs)]
    /\ ret' = Render(loc')
    /\ pc' = "idle"
    /\ UNCHANGED <<call, args>>

NextUI == UpdateInput \/ SelectTab \/ Recalculate

SpecUI == InitUI /\ [][NextUI]_vars

MonthFields == {"monthsToDownPayment", "monthsToFullPrice"}

Pieces(text) == {text[i] : i \in 1..Len(text)}

\* C5 as stated: wherever one of the two month counts is the sentinel -1,
\* what is rendered of it is the marker of the infeasible alone: no text shows
\* -1 as a number of months, and no row of the table is the row of month -1.
C5_SentinelNeverShown ==
    (call = "MortgageCalculator" /\ loc.results # NoResults) =>
        \A f \in MonthFields :
            loc.results[f] = -1 =>
                /\ ret.summary[f] = <<"Nevozmozhno">>
                /\ "-1" \notin Pieces(ret.formulas[f])
                /\ \A k \in 1..Len(ret.table) :
                      ret.table[k].month # -1 /\ ~ret.table[k].highlighted

\* The formulas tab is open on infeasible results.
C5_FormulasTabOnInfeasible ==
    /\ call = "MortgageCalculator" /\ pc = "idle"
    /\ loc.tab = "formulas"
    /\ loc.results.monthsToDownPayment = -1

(***************************************************************************)
(* calculateRecommendedSavings, one action for the code before the loop,   *)
(* one per pass of the loop and one for the division that it returns.      *)
(***************************************************************************)
MaxRecommendedMonths == 4

RecommendedArgs(target, price, priceGrowth, salaryGrowth, months, percent) ==
    [targetAmount |-> NumOfInt(target),
     currentPrice |-> NumOfInt(price),
     priceGrowthRate |-> NumOfInt(priceGrowth),
     salaryGrowthRate |-> NumOfInt(salaryGrowth),
     targetMonths |-> months,
     downPaymentPercent |-> NumOfInt(percent)]

RecommendedCalls ==
    {RecommendedArgs(t, p, pg, sg, m, pct) :
        t \in {0, 200}, p \in {1000, 1010}, pg \in {0, 60}, sg \in {-12, 0, 60},
        m \in (1..MaxRecommendedMonths) \cup {targetMonths}, pct \in {20, 25}}

InitRecommended ==
    /\ call = "calculateRecommendedSavings"
    /\ args \in RecommendedCalls
    /\ pc = "start"
    /\ loc = NoLocals
    /\ ret = NoValue

\* Lines 353-359.
RecommendedStart ==
    /\ call = "calculateRecommendedSavings" /\ pc = "start"
    /\ loc' = [targetDownPayment |->
                   PercentOf(calculateFuturePrice(args.currentPrice, args.priceGrowthRate,
                                                  args.targetMonths),
                             args.downPaymentPercent),
               monthlySalaryGrowth |-> MonthlyRate(args.salaryGrowthRate),
               st |-> [multiplier |-> NumOfInt(0), growthFactor |-> One],
               i |-> 0]
    /\ pc' = "loop"
    /\ UNCHANGED <<call, args, ret>>

\* One pass of `for (let i = 0; i < targetMonths; i++)` (lines 361-364).
RecommendedIterate ==
    /\ call = "calculateRecommendedSavings" /\ pc = "loop"
    /\ loc.i < args.targetMonths
    /\ loc' = [loc EXCEPT !.st = RecommendedBody(loc.st, loc.monthlySalaryGrowth),
                          !.i = loc.i + 1]
    /\ UNCHANGED <<call, args, pc, ret>>

\* Line 366.
RecommendedReturn ==
    /\ call = "calculateRecommendedSavings" /\ pc = "loop"
    /\ ~(loc.i < args.targetMonths)
    /\ ret' = NumDivide(loc.targetDownPayment, loc.st.multiplier)
    /\ pc' = "done"
    /\ UNCHANGED <<call, args, loc>>

NextRecommended == RecommendedStart \/ RecommendedIterate \/ RecommendedReturn

SpecRecommended == InitRecommended /\ [][NextRecommended]_vars

RecommendedDone == call = "calculateRecommendedSavings" /\ pc = "done"

RECURSIVE GrowthSumIn(_, _, _)
\* The sum of (1 + g/1200)^i for i = lo..hi.
GrowthSumIn(g, lo, hi) ==
    IF lo > hi THEN NumOfInt(0)
    ELSE IF lo = hi THEN NumPow(NumAdd(One, MonthlyRate(g)), lo)
    ELSE NumAdd(GrowthSumIn(g, lo, (lo + hi) \div 2),
                GrowthSumIn(g, ((lo + hi) \div 2) + 1, hi))

\* The sum of (1 + g/1200)^i for i = 0..n-1.
GrowthSum(g, n) == GrowthSumIn(g, 0, n - 1)

\* C11: the contribution that calculateRecommendedSavings returns for
\* targetMonths >= 1 is the future down payment, calculateFuturePrice(P, pg,
\* T) * dp / 100, divided by the sum of (1 + sg/1200)^i for i = 0..T-1, and
\* calculateSavingsWithGrowth with that contribution, T months, no initial
\* savings and no interest gives the future down payment again (the
\* contribution is the quotient ret.num / ret.den, and the savings of a
\* quotient are the savings of its numerator over its denominator).
C11_RecommendedReachesTarget ==
    (RecommendedDone /\ args.targetMonths >= 1) =>
        /\ ret.num = PercentOf(calculateFuturePrice(args.currentPrice, args.priceGrowthRate,
                                                    args.targetMonths),
                               args.downPaymentPercent)
        /\ ret.den = GrowthSum(args.salaryGrowthRate, args.targetMonths)
        /\ ret.den # NumOfInt(0)
        /\ calculateSavingsWithGrowth(ret.num, args.salaryGrowthRate, args.targetMonths,
                                      NumOfInt(0), NumOfInt(0))
              = NumMul(ret.num, ret.den)

\* A call of several months has returned, the salary and the price growing.
C11_Witness ==
    /\ RecommendedDone
    /\ args.targetMonths = targetMonths
    /\ args.salaryGrowthRate # NumOfInt(0)
    /\ args.priceGrowthRate # NumOfInt(0)
    /\ ret.den # NumOfInt(args.targetMonths)

(***************************************************************************)
(* The recommended contribution of calculateAll.                           *)
(***************************************************************************)
\* The down payment of the price after 24 months.
DownPaymentAfterTargetMonths(inputs) ==
    PercentOf(calculateFuturePrice(inputs.apartmentPrice, inputs.priceGrowthRate, 24),
              inputs.downPaymentPercent)

\* C12: the recommendedMonthlySavings of calculateAll is the rounded quotient
\* of the down payment of the price after 24 months by the sum of
\* (1 + salaryGrowthRate/1200)^i, i = 0..23: a value of apartmentPrice,
\* priceGrowthRate, salaryGrowthRate and downPaymentPercent alone, whatever
\* the other inputs and the targetAmount handed to the solver.
C12_RecommendedOfFourInputs ==
    AllDone =>
        ret.recommendedMonthlySavings =
            RatioRound(NumDivide(DownPaymentAfterTargetMonths(args),
                                 GrowthSum(args.salaryGrowthRate, 24)))

\* calculateAll has returned for inputs with savings, interest and a mortgage
\* rate, the targetAmount handed to the solver being another amount than the
\* down payment after 24 months.
C12_Witness ==
    /\ AllDone
    /\ args.priceGrowthRate # NumOfInt(0)
    /\ args.monthlySavings # NumOfInt(0)
    /\ args.initialSavings # NumOfInt(0)
    /\ args.savingsInterestRate # NumOfInt(0)
    /\ args.mortgageRate # NumOfInt(0)
    /\ loc.price.requiredDownPayment # DownPaymentAfterTargetMonths(args)

(***************************************************************************)
(* calculateMortgagePayment: the two constants, then one of the two        *)
(* returns.                                                                *)
(***************************************************************************)
MortgageArgs(principal, rate, years) ==
    [principal |-> NumOfInt(principal), annualRate |-> NumOfInt(rate), termYears |-> years]

MortgageCalls ==
    {MortgageArgs(p, r, y) :
        p \in {808, 1000, 1200000}, r \in {-12, 0, 6, 12, 18}, y \in {1, 2, 10}}
    \cup {MortgageArgs(1000000, 12, 20), MortgageArgs(1000000, 0, 20)}

InitMortgage ==
    /\ call = "calculateMortgagePayment"
    /\ args \in MortgageCalls
    /\ pc = "start"
    /\ loc = NoLocals
    /\ ret = NoValue

\* Lines 325-326.
MortgageStart ==
    /\ call = "calculateMortgagePayment" /\ pc = "start"
    /\ loc' = [monthlyRate |-> MonthlyRate(args.annualRate),
               numPayments |-> args.termYears * 12]
    /\ pc' = "test"
    /\ UNCHANGED <<call, args, ret>>

\* Lines 328-330.
MortgageZeroRate ==
    /\ call = "calculateMortgagePayment" /\ pc = "test"
    /\ MortgageRateIsZero(loc.monthlyRate)
    /\ ret' = NumDivide(args.principal, NumOfInt(loc.numPayments))
    /\ pc' = "done"
    /\ UNCHANGED <<call, args, loc>>

\* Lines 332-337; the local growth is the value of the two calls of Math.pow.
MortgageAnnuity ==
    /\ call = "calculateMortgagePayment" /\ pc = "test"
    /\ ~MortgageRateIsZero(loc.monthlyRate)
    /\ loc' = [monthlyRate |-> loc.monthlyRate,
               numPayments |-> loc.numPayments,
               growth |-> NumPow(NumAdd(One, loc.monthlyRate), loc.numPayments)]
    /\ ret' = MortgageQuotient(args.principal, loc.monthlyRate, loc'.growth)
    /\ pc' = "done"
    /\ UNCHANGED <<call, args>>

NextMortgage == MortgageStart \/ MortgageZeroRate \/ MortgageAnnuity

SpecMortgage == InitMortgage /\ [][NextMortgage]_vars

MortgageDone == call = "calculateMortgagePayment" /\ pc = "done"

\* The quotient q is the number x.
RatioIs(q, x) == q.den # NumOfInt(0) /\ q.num = NumMul(x, q.den)

\* C13: with an annual rate of 0 calculateMortgagePayment returns
\* principal / (termYears * 12) and has not evaluated the annuity formula;
\* the payment times the number of payments is the principal, and 1200000
\* over 10 years gives 10000.
C13_ZeroRatePayment ==
    (MortgageDone /\ args.annualRate = NumOfInt(0)) =>
        /\ ret = NumDivide(args.principal, NumOfInt(args.termYears * 12))
        /\ "growth" \notin DOMAIN loc
        /\ RatioIs(RatioMul(ret, NumOfInt(args.termYears * 12)), args.principal)
        /\ (args.principal = NumOfInt(1200000) /\ args.termYears = 10) =>
              RatioIs(ret, NumOfInt(10000))

\* The call of the example has returned.
C13_Witness ==
    /\ MortgageDone
    /\ args = MortgageArgs(1200000, 0, 10)
    /\ RatioRound(ret) = NumOfInt(10000)

RECURSIVE Amortise(_, _, _, _)
\* The balance after n more months, each adding the month's interest at the
\* monthly rate r and taking the payment off; balance and payment are the
\* numerators of two quotients of one denominator.
Amortise(balance, payment, r, n) ==
    IF n <= 0 THEN balance
    ELSE IF n = 1 THEN NumSub(NumMul(balance, NumAdd(One, r)), payment)
    ELSE LET h == Amortise(balance, payment, r, n \div 2)
         IN  IF h.e < 0 THEN h ELSE Amortise(h, payment, r, n - (n \div 2))

\* C14: for a monthly rate r = annualRate / 1200 that is not zero and
\* n = termYears * 12 >= 1 payments, the payment that calculateMortgagePayment
\* returns satisfies payment * ((1 + r)^n - 1) = principal * r * (1 + r)^n,
\* and the principal amortised with it for n months leaves a balance of zero.
C14_AnnuityIdentity ==
    (MortgageDone /\ args.annualRate # NumOfInt(0) /\ args.termYears >= 1) =>
        /\ ret.den # NumOfInt(0)
        /\ NumMul(ret.num,
                  NumSub(NumPow(NumAdd(One, Per1200(args.annualRate)), args.termYears * 12),
                         One))
              = NumMul(NumMul(args.principal,
                              NumMul(Per1200(args.annualRate),
                                     NumPow(NumAdd(One, Per1200(args.annualRate)),
                                            args.termYears * 12))),
                       ret.den)
        /\ Amortise(NumMul(args.principal, ret.den), ret.num, Per1200(args.annualRate),
                    args.termYears * 12) = NumOfInt(0)

\* The call of 1000000 at 12% over 20 years has returned: 240 payments at a
\* monthly rate of 0.01.
C14_Witness ==
    /\ MortgageDone
    /\ args = MortgageArgs(1000000, 12, 20)
    /\ loc.numPayments = 240
    /\ loc.monthlyRate = Per1200(NumOfInt(12))
    /\ RatioRound(ret) = NumOfInt(11011)

(***************************************************************************)
(* The loan and the mortgage totals of calculateAll.                       *)
(***************************************************************************)
\* q - r for two quotients.
RatioLess(q, r) ==
    [num |-> NumSub(NumMul(q.num, r.den), NumMul(r.num, q.den)),
     den |-> NumMul(q.den, r.den)]

\* C15 as stated: the returned record satisfies totalMortgagePayment -
\* mortgageOverpayment = futureApartmentPrice - requiredDownPayment.
C15_RecordKeepsLoan ==
    AllDone =>
        NumSub(ret.totalMortgagePayment, ret.mortgageOverpayment)
            = NumSub(ret.futureApartmentPrice, ret.requiredDownPayment)

\* C15, amended: in calculateAll the required down payment is
\* downPaymentPercent / 100 of the future price, the loan amount the future
\* price less it, the total the monthly payment times mortgageTerm * 12 and
\* the overpayment the total less the loan amount, so that the unrounded
\* total less the unrounded overpayment is the loan amount; the record
\* carries the rounds of these values, and its totalMortgagePayment -
\* mortgageOverpayment is within 1 of its futureApartmentPrice -
\* requiredDownPayment.
C15_LoanOfUnrounded ==
    AllDone =>
        /\ loc.price.requiredDownPayment
              = PercentOf(loc.price.futureApartmentPrice, args.downPaymentPercent)
        /\ loc.price.loanAmount
              = NumSub(loc.price.futureApartmentPrice, loc.price.requiredDownPayment)
        /\ RatioIs(RatioLess(loc.mortgage.totalMortgagePayment,
                             RatioMul(loc.mortgage.monthlyMortgagePayment,
                                      NumOfInt(args.mortgageTerm * 12))),
                   NumOfInt(0))
        /\ RatioIs(RatioLess(loc.mortgage.totalMortgagePayment,
                             loc.mortgage.mortgageOverpayment),
                   loc.price.loanAmount)
        /\ ret.futureApartmentPrice = MathRound(loc.price.futureApartmentPrice)
        /\ ret.requiredDownPayment = MathRound(loc.price.requiredDownPayment)
        /\ ret.totalMortgagePayment = RatioRound(loc.mortgage.totalMortgagePayment)
        /\ ret.mortgageOverpayment = RatioRound(loc.mortgage.mortgageOverpayment)
        /\ NumSub(NumSub(ret.totalMortgagePayment, ret.mortgageOverpayment),
                  NumSub(ret.futureApartmentPrice, ret.requiredDownPayment))
              \in {NumOfInt(-1), NumOfInt(0), NumOfInt(1)}

\* calculateAll has returned for a price that grows until the down payment
\* is saved and a mortgage at interest: the down payment of the future price
\* is another than that of the price of the inputs.
C15_Witness ==
    /\ AllDone
    /\ ret.monthsToDownPayment > 0
    /\ args.mortgageRate # NumOfInt(0)
    /\ loc.price.requiredDownPayment
          # PercentOf(args.apartmentPrice, args.downPaymentPercent)
    /\ ret.mortgageOverpayment # NumOfInt(0)

(***************************************************************************)
(* calculateAll on the inputs the form starts with, and on those inputs    *)
(* with the three sliders of the growth and interest rates at 0 and other  *)
(* savings entered.                                                        *)
(***************************************************************************)
\* `defaultInputs` of the component.
DefaultInputs == CalculatorInputs(10000000, 8, 50000, 5, 20, 0, 10, 18, 20)

ScenarioCalls ==
    {DefaultInputs}
    \cup {FormInputs(saving, initial) :
            saving \in {0, 25000, 50000, 100000, 150000},
            initial \in {0, 1000000, 2000000, 10000000}}

InitScenario ==
    /\ call = "calculateAll"
    /\ args \in ScenarioCalls
    /\ pc = "start"
    /\ loc = NoLocals
    /\ ret = NoValue

SpecScenario == InitScenario /\ [][NextAll]_vars

\* C16: for the default inputs calculateAll gives a monthsToDownPayment in
\* 1..599, a monthly mortgage payment (as computed and as rounded into the
\* record) above the loan amount over 240, and an overpayment above 0.
C16_DefaultScenario ==
    (AllDone /\ args = DefaultInputs) =>
        /\ ret.monthsToDownPayment \in 1..599
        /\ loc.mortgage.monthlyMortgagePayment.den # NumOfInt(0)
        /\ NumCmp(NumMul(NumMul(loc.mortgage.monthlyMortgagePayment.num, NumOfInt(240)),
                         loc.mortgage.monthlyMortgagePayment.den),
                  NumMul(loc.price.loanAmount,
                         NumMul(loc.mortgage.monthlyMortgagePayment.den,
                                loc.mortgage.monthlyMortgagePayment.den))) > 0
        /\ NumCmp(NumMul(ret.monthlyMortgagePayment, NumOfInt(240)),
                  loc.price.loanAmount) > 0
        /\ NumCmp(ret.mortgageOverpayment, NumOfInt(0)) > 0

\* calculateAll has returned for the default inputs: 41 months to the down
\* payment, 213 to the full price, a payment of 162128.
C16_Witness ==
    /\ AllDone
    /\ args = DefaultInputs
    /\ ret.monthsToDownPayment = 41
    /\ ret.monthsToFullPrice = 213
    /\ ret.futureApartmentPrice = NumOfInt(13131466)
    /\ ret.monthlyMortgagePayment = NumOfInt(162128)

(***************************************************************************)
(* calculateFuturePrice, statement by statement.                           *)
(***************************************************************************)
\* The largest `months` of the calls of calculateFuturePrice.
MaxPriceMonths == 5

PriceCalls ==
    {[currentPrice |-> NumOfInt(p),
      annualGrowthRate |-> NumOfInt(r),
      months |-> n] :
        p \in {-1000, 0, 1000, 10000000}, r \in {-1200, -12, 0, 8, 60},
        n \in 0..MaxPriceMonths}

InitPrice ==
    /\ call = "calculateFuturePrice"
    /\ args \in PriceCalls
    /\ pc = "start"
    /\ loc = NoLocals
    /\ ret = NoValue

\* Line 237.
PriceRate ==
    /\ call = "calculateFuturePrice" /\ pc = "start"
    /\ loc' = [monthlyRate |-> MonthlyRate(args.annualGrowthRate)]
    /\ pc' = "return"
    /\ UNCHANGED <<call, args, ret>>

\* Line 238.
PriceReturn ==
    /\ call = "calculateFuturePrice" /\ pc = "return"
    /\ ret' = FuturePriceOf(args.currentPrice, loc.monthlyRate, args.months)
    /\ pc' = "done"
    /\ UNCHANGED <<call, args, loc>>

NextPrice == PriceRate \/ PriceReturn

SpecPrice == InitPrice /\ [][NextPrice]_vars

PriceDone == call = "calculateFuturePrice" /\ pc = "done"

\* The two primitives side by side: a call of either.
InitPrimitives == InitPrice \/ InitSavings

NextPrimitives == NextPrice \/ NextSavings

SpecPrimitives == InitPrimitives /\ [][NextPrimitives]_vars

\* C17: calculateFuturePrice returns its price unchanged when the growth rate
\* is 0 (any number of months) and when the number of months is 0 (any rate);
\* calculateSavingsWithGrowth returns its initial balance unchanged when the
\* number of months is 0 (any contribution and rates).
C17_IdentityCases ==
    /\ (PriceDone /\ args.annualGrowthRate = NumOfInt(0)) => ret = args.currentPrice
    /\ (PriceDone /\ args.months = 0) => ret = args.currentPrice
    /\ (call = "calculateSavingsWithGrowth" /\ pc = "done" /\ args.months = 0) =>
            ret = args.initialSavings

\* The zero-month case of calculateFuturePrice with a rate that is not 0.
C17_Witness ==
    /\ PriceDone
    /\ args.months = 0
    /\ args.annualGrowthRate = NumOfInt(60)
    /\ args.currentPrice = NumOfInt(1000)
    /\ ret = NumOfInt(1000)

\* The zero-rate case of calculateFuturePrice over several months.
C17_WitnessZeroRate ==
    /\ PriceDone
    /\ args.months = MaxPriceMonths
    /\ args.annualGrowthRate = NumOfInt(0)
    /\ ret = args.currentPrice /\ ret = NumOfInt(10000000)

\* The zero-month case of calculateSavingsWithGrowth with contribution, growth
\* and interest that are not 0.
C17_WitnessSavings ==
    /\ call = "calculateSavingsWithGrowth" /\ pc = "done"
    /\ args.months = 0
    /\ args.initialMonthlySaving = NumOfInt(250)
    /\ args.annualSalaryGrowthRate = NumOfInt(60)
    /\ args.annualInterestRate = NumOfInt(10)
    /\ ret = NumOfInt(200)

SavingsDone == call = "calculateSavingsWithGrowth" /\ pc = "done"

\* The result of the call for one month more.
SavingsOfOneMonthMore ==
    calculateSavingsWithGrowth(args.initialMonthlySaving, args.annualSalaryGrowthRate,
                               args.months + 1, args.initialSavings,
                               args.annualInterestRate)

\* The contribution and the balance the call starts with are not negative.
SavingsFromNonNegative ==
    /\ NumGeq(args.initialMonthlySaving, NumOfInt(0))
    /\ NumGeq(args.initialSavings, NumOfInt(0))

\* C19 as stated: with a non-negative contribution and balance the result for
\* n + 1 months is at least the result for n months, whatever the salary-growth
\* rate and the interest rate.
C19_NonDecreasingAnyRate ==
    (SavingsDone /\ SavingsFromNonNegative) =>
        NumGeq(SavingsOfOneMonthMore, ret)

\* C19 as the code has it: with a non-negative contribution and balance, an
\* interest rate that is not negative and a salary-growth rate of at least
\* -1200 (the contribution never changes sign), the result for n + 1 months
\* is at least the result for n months.
C19_NonDecreasingOfNonNegativeInterest ==
    (/\ SavingsDone /\ SavingsFromNonNegative
     /\ NumGeq(args.annualInterestRate, NumOfInt(0))
     /\ NumGeq(args.annualSalaryGrowthRate, NumOfInt(-1200))) =>
        NumGeq(SavingsOfOneMonthMore, ret)

\* Several months of a positive balance at interest with a positive
\* contribution that shrinks: one month more gives more.
C19_Witness ==
    /\ SavingsDone
    /\ args.months >= 3
    /\ args.initialMonthlySaving = NumOfInt(100)
    /\ args.initialSavings = NumOfInt(200)
    /\ args.annualInterestRate = NumOfInt(10)
    /\ args.annualSalaryGrowthRate = NumOfInt(-12)
    /\ NumCmp(SavingsOfOneMonthMore, ret) > 0

\* A balance at a negative interest rate with no contribution: one month more
\* gives less.
C19_WitnessNegativeInterest ==
    /\ SavingsDone
    /\ args.initialMonthlySaving = NumOfInt(0)
    /\ args.initialSavings = NumOfInt(200)
    /\ args.annualInterestRate = NumOfInt(-12)
    /\ args.months = 0
    /\ SavingsOfOneMonthMore = NumOfInt(198)

(***************************************************************************)
(* The price feed: the handler GET of /api/prices and the component's      *)
(* fetchMarketPrices with the effects around it.  A row of the upstream    *)
(* body is <<date, new-building price, secondary price>> (the columns 0, 1 *)
(* and 2 of the source); the date and the history of the response play no  *)
(* part in the price and are left out.  The form stands as in FormInputs.  *)
(***************************************************************************)
\* `sizes` of the handler, lines 46-53.
sizes ==
    [type \in {"1", "2", "3", "4", "5", "6"} |->
        CASE type = "1" -> 50
          [] type = "2" -> 38
          [] type = "3" -> 55
          [] type = "4" -> 75
          [] type = "5" -> 100
          [] type = "6" -> 28]

\* The values of `apartmentTypes`, lines 70-75 of the component.
apartmentTypes == {"2", "3", "4", "6"}

PriceSources == {"new", "secondary"}

NoBody == [parses |-> FALSE, hasRows |-> FALSE, rows |-> <<>>]

\* What the upstream service may do with one request: the connection fails,
\* it answers with a status that is not OK, it answers with a body that is
\* not JSON, with an object without `rows`, with empty `rows`, or with rows.
UpstreamOutcomes ==
    {[reached |-> FALSE, ok |-> FALSE, body |-> NoBody],
     [reached |-> TRUE, ok |-> FALSE, body |-> NoBody],
     [reached |-> TRUE, ok |-> TRUE, body |-> NoBody],
     [reached |-> TRUE, ok |-> TRUE,
      body |-> [parses |-> TRUE, hasRows |-> FALSE, rows |-> <<>>]],
     [reached |-> TRUE, ok |-> TRUE,
      body |-> [parses |-> TRUE, hasRows |-> TRUE, rows |-> <<>>]],
     [reached |-> TRUE, ok |-> TRUE,
      body |-> [parses |-> TRUE, hasRows |-> TRUE,
                rows |-> << <<"09.11.2025", 510000, 470000>>,
                            <<"09.12.2025", 519306, 475564>> >>]]}

Thrown == [thrown |-> TRUE]

\* Lines 57-77: the response of the handler for the prices of the last row.
PricesResponse(type, newBuildingPrice, secondaryPrice, avgSize) ==
    [thrown |-> FALSE,
     success |-> TRUE,
     data |-> [type |-> type,
               pricePerSqm |-> [newBuilding |-> newBuildingPrice,
                                secondary |-> secondaryPrice],
               averagePrice |-> [newBuilding |-> newBuildingPrice * avgSize,
                                 secondary |-> secondaryPrice * avgSize],
               avgSize |-> avgSize]]

\* Lines 19-77, the `try` block: it throws when fetch rejects, when the
\* status is not OK and when the body does not parse; a missing `rows` is
\* an empty list and a missing last row gives the prices `null || 0`.
PricesTry(type, upstream) ==
    IF ~upstream.reached \/ ~upstream.ok \/ ~upstream.body.parses THEN Thrown
    ELSE LET rows == IF upstream.body.hasRows THEN upstream.body.rows ELSE <<>>
             avgSize == IF type \in DOMAIN sizes THEN sizes[type] ELSE 50
         IN  IF Len(rows) > 0
             THEN PricesResponse(type, rows[Len(rows)][2], rows[Len(rows)][3], avgSize)
             ELSE PricesResponse(type, 0, 0, avgSize)

\* Lines 82-99: the fallback of the `catch` block.
PricesFallback(type) ==
    [thrown |-> FALSE,
     success |-> FALSE,
     data |-> [type |-> type,
               pricePerSqm |-> [newBuilding |-> 519306, secondary |-> 475564],
               averagePrice |-> [newBuilding |-> 519306 * 50,
                                 secondary |-> 475564 * 50],
               avgSize |-> 50]]

\* The handler GET of /api/prices for one outcome of the upstream service.
PricesGET(type, upstream) ==
    IF PricesTry(type, upstream) = Thrown THEN PricesFallback(type)
    ELSE PricesTry(type, upstream)

NoPrices == [none |-> TRUE]

\* Lines 130-132 and 148-150.
PriceOfSource(priceSource, data) ==
    IF priceSource = "new" THEN data.averagePrice.newBuilding
    ELSE data.averagePrice.secondary

\* The component once mounted: its first request for prices is under way
\* and the results of the inputs it starts with are set.
InitPrices ==
    /\ call = "fetchMarketPrices"
    /\ args = NoLocals
    /\ pc = "request"
    /\ loc = [inputs |-> FormInputs(50000, 0),
              results |-> calculateAll(FormInputs(50000, 0)),
              apartmentType |-> "3",
              priceSource |-> "new",
              marketPrices |-> NoPrices,
              refetch |-> FALSE]
    /\ ret = NoValue

\* The handler answers the request of line 126.
ServePrices ==
    /\ call = "fetchMarketPrices" /\ pc = "request"
    /\ \E upstream \in UpstreamOutcomes :
         ret' = PricesGET(loc.apartmentType, upstream)
    /\ pc' = "response"
    /\ UNCHANGED <<call, args, loc>>

\* Lines 135-139: the request of line 126 itself fails; nothing is set.
FetchFails ==
    /\ call = "fetchMarketPrices" /\ pc = "request"
    /\ pc' = "idle"
    /\ UNCHANGED <<call, args, loc, ret>>

\* Lines 127-134 and 137-139: a response with `success` sets the market
\* prices and the apartment price (the effect of lines 146-153 then sets the
\* same price again), any other response is dropped.
ApplyPrices ==
    /\ call = "fetchMarketPrices" /\ pc = "response"
    /\ IF ret.success
       THEN /\ loc' = [loc EXCEPT
                        !.marketPrices = ret.data,
                        !.inputs.apartmentPrice =
                            NumOfInt(PriceOfSource(loc.priceSource, ret.data))]
            /\ pc' = "pending"
       ELSE /\ pc' = "idle"
            /\ UNCHANGED loc
    /\ ret' = NoValue
    /\ UNCHANGED <<call, args>>

\* The effect of lines 162-165 on the changed inputs; a request that the
\* same render started is then under way.
RecalculateOnPrice ==
    /\ call = "fetchMarketPrices" /\ pc = "pending"
    /\ loc' = [loc EXCEPT !.results = calculateAll(loc.inputs), !.refetch = FALSE]
    /\ pc' = IF loc.refetch THEN "request" ELSE "idle"
    /\ UNCHANGED <<call, args, ret>>

\* Line 265 and the effect of lines 142-144: another type is selected and
\* its prices are requested.
SelectApartmentType ==
    /\ call = "fetchMarketPrices" /\ pc = "idle"
    /\ \E type \in apartmentTypes \ {loc.apartmentType} :
         loc' = [loc EXCEPT !.apartmentType = type]
    /\ pc' = "request"
    /\ UNCHANGED <<call, args, ret>>

\* Line 251: the refresh button.
RefreshPrices ==
    /\ call = "fetchMarketPrices" /\ pc = "idle"
    /\ pc' = "request"
    /\ UNCHANGED <<call, args, loc, ret>>

\* Line 280 with the effects of lines 142-144 and 146-153: the other market
\* is selected, fetchMarketPrices is made anew and called, and the price of
\* the market prices already held, if any, becomes the apartment price.
SelectPriceSource ==
    /\ call = "fetchMarketPrices" /\ pc = "idle"
    /\ \E source \in PriceSources \ {loc.priceSource} :
         IF loc.marketPrices # NoPrices
         THEN /\ loc' = [loc EXCEPT
                          !.priceSource = source,
                          !.inputs.apartmentPrice =
                              NumOfInt(PriceOfSource(source, loc.marketPrices)),
                          !.refetch = TRUE]
              /\ pc' = "pending"
         ELSE /\ loc' = [loc EXCEPT !.priceSource = source]
              /\ pc' = "request"
    /\ UNCHANGED <<call, args, ret>>

NextPrices ==
    \/ ServePrices
    \/ FetchFails
    \/ ApplyPrices
    \/ RecalculateOnPrice
    \/ SelectApartmentType
    \/ RefreshPrices
    \/ SelectPriceSource

SpecPrices == InitPrices /\ [][NextPrices]_vars

\* C20: whatever the upstream service does, the handler answers with a
\* response (nothing is thrown out of it), and the apartment price of the
\* inputs that calculateAll is run on after a request is strictly positive.
C20_UsablePriceAlways ==
    /\ (call = "fetchMarketPrices" /\ pc = "response") => ~ret.thrown
    /\ (call = "fetchMarketPrices" /\ pc \in {"pending", "idle"}) =>
            NumCmp(loc.inputs.apartmentPrice, NumOfInt(0)) > 0

\* The part of C20 that the code keeps: the handler always answers, with
\* its fallback when the `try` block throws, and the component leaves the
\* apartment price alone on a response without `success`.
C20_HandlerAlwaysAnswers ==
    (call = "fetchMarketPrices" /\ pc = "response") =>
        /\ ~ret.thrown
        /\ ~ret.success => ret.data.averagePrice.newBuilding = 519306 * 50

\* calculateAll has run on an apartment price of 0 that a response to empty
\* or missing rows put into the inputs.
C20_WitnessZeroPrice ==
    /\ call = "fetchMarketPrices" /\ pc = "idle"
    /\ loc.marketPrices # NoPrices
    /\ loc.inputs.apartmentPrice = NumOfInt(0)
    /\ loc.results.futureApartmentPrice = NumOfInt(0)

(***************************************************************************)
(* The reference rates: the handler GET of /api/cbr.  A JS number is here  *)
(* [nan, value]; a text is a sequence of characters.  Of the page only     *)
(* what the two patterns capture matters: for each pattern either no       *)
(* match or the captured text, one or more of the characters 0-9 , and .   *)
(***************************************************************************)
DigitChars == <<"0", "1", "2", "3", "4", "5", "6", "7", "8", "9">>

IsDigit(c) == \E d \in 1..Len(DigitChars) : DigitChars[d] = c

DigitOf(c) == (CHOOSE d \in 1..Len(DigitChars) : DigitChars[d] = c) - 1

RECURSIVE DigitRun(_, _)
\* The number of digits of the text from the position `from` on, up to the
\* first character that is not a digit.
DigitRun(text, from) ==
    IF from > Len(text) \/ ~IsDigit(text[from]) THEN 0
    ELSE 1 + DigitRun(text, from + 1)

RECURSIVE DigitsValue(_, _, _)
\* The natural number that the `count` digits from `from` on spell.
DigitsValue(text, from, count) ==
    IF count = 0 THEN 0
    ELSE 10 * DigitsValue(text, from, count - 1) + DigitOf(text[from + count - 1])

\* 0.1
Tenth == NumDiv12(NumDiv100(NumOfInt(120)))

NaN == [nan |-> TRUE, value |-> NumOfInt(0)]

Number(x) == [nan |-> FALSE, value |-> x]

\* whole + frac / 10^places
Decimal(whole, frac, places) ==
    Number(NumAdd(NumOfInt(whole), NumMul(NumOfInt(frac), NumPow(Tenth, places))))

\* `text.replace(',', '.')`: the first comma, if any, becomes a point.
ReplaceComma(text) ==
    IF \E k \in 1..Len(text) : text[k] = ","
    THEN LET first == CHOOSE k \in 1..Len(text) :
                          text[k] = "," /\ \A j \in 1..(k - 1) : text[j] # ","
         IN  [k \in 1..Len(text) |-> IF k = first THEN "." ELSE text[k]]
    ELSE text

\* parseFloat on a text of digits, commas and points: the longest prefix
\* `digits`, `digits.`, `digits.digits` or `.digits`, and NaN when that prefix
\* holds no digit.
parseFloat(text) ==
    LET whole == DigitRun(text, 1)
        point == whole + 1 <= Len(text) /\ text[whole + 1] = "."
        places == IF point THEN DigitRun(text, whole + 2) ELSE 0
    IN  IF whole = 0 /\ places = 0 THEN NaN
        ELSE Decimal(DigitsValue(text, 1, whole),
                     DigitsValue(text, whole + 2, places), places)

\* x - 2, x * 0.9 and Math.max of JS numbers.
RateLessTwo(x) == IF x.nan THEN NaN ELSE Number(NumSub(x.value, NumOfInt(2)))

NineTenths(x) ==
    IF x.nan THEN NaN ELSE Number(NumMul(x.value, NumMul(NumOfInt(9), Tenth)))

MathMax(x, y) ==
    IF x.nan \/ y.nan THEN NaN
    ELSE IF NumGeq(x.value, y.value) THEN x ELSE y

\* A slip of Math.max: the smaller of the two.
DepositRateOfSmaller(keyRate) ==
    IF keyRate.nan THEN NaN
    ELSE IF NumGeq(RateLessTwo(keyRate).value, NineTenths(keyRate).value)
         THEN NineTenths(keyRate) ELSE RateLessTwo(keyRate)

\* Line 138.
DepositRateOf(keyRate) == MathMax(RateLessTwo(keyRate), NineTenths(keyRate))

\* JSON of a number: NaN is written as null.
JsonNumber(x) == [null |-> x.nan, value |-> x.value]

NoMatch == <<>>

\* What a pattern may capture of the page.
CapturedTexts ==
    {<<"1", "6">>, <<"1", "6", ",", "5", "0">>, <<"2", "1", ".", "0", "0">>,
     <<"7", ",", "5">>, <<"2", "5", ".">>, <<",", "5">>, <<"1", ",", "2", ",", "5">>,
     <<".">>, <<",">>}

\* The upstream page: fetch rejects, the status is not OK, or the page is
\* read and each pattern matches or not.
CbrOutcomes ==
    {[reached |-> FALSE, ok |-> FALSE, keyRateMatch |-> NoMatch,
      inflationMatch |-> NoMatch],
     [reached |-> TRUE, ok |-> FALSE, keyRateMatch |-> NoMatch,
      inflationMatch |-> NoMatch]}
    \cup {[reached |-> TRUE, ok |-> TRUE, keyRateMatch |-> k, inflationMatch |-> i] :
            k \in CapturedTexts \cup {NoMatch}, i \in CapturedTexts \cup {NoMatch}}

CbrResponse(success, keyRate, inflationRate, depositRate) ==
    [success |-> success,
     data |-> [keyRate |-> JsonNumber(keyRate),
               inflationRate |-> JsonNumber(inflationRate),
               depositRate |-> JsonNumber(depositRate)]]

InitCbr ==
    /\ call = "GET /api/cbr"
    /\ args = NoLocals
    /\ pc = "start"
    /\ loc = NoLocals
    /\ ret = NoValue

\* Lines 109-118: the page is fetched and the two rates get their fallbacks;
\* a rejected fetch goes to the catch block.
CbrFetch ==
    /\ call = "GET /api/cbr" /\ pc = "start"
    /\ \E upstream \in CbrOutcomes :
         /\ loc' = [upstream |-> upstream,
                    keyRate |-> Decimal(21, 0, 0),
                    inflationRate |-> Decimal(8, 9, 1)]
         /\ pc' = IF upstream.reached THEN "status" ELSE "catch"
    /\ UNCHANGED <<call, args, ret>>

\* Lines 120-121.
CbrStatus ==
    /\ call = "GET /api/cbr" /\ pc = "status"
    /\ pc' = IF loc.upstream.ok THEN "keyRate" ELSE "deposit"
    /\ UNCHANGED <<call, args, loc, ret>>

\* Lines 125-128.
CbrKeyRate ==
    /\ call = "GET /api/cbr" /\ pc = "keyRate"
    /\ loc' = IF loc.upstream.keyRateMatch # NoMatch
              THEN [loc EXCEPT !.keyRate =
                        parseFloat(ReplaceComma(loc.upstream.keyRateMatch))]
              ELSE loc
    /\ pc' = "inflation"
    /\ UNCHANGED <<call, args, ret>>

\* Lines 131-134.
CbrInflation ==
    /\ call = "GET /api/cbr" /\ pc = "inflation"
    /\ loc' = IF loc.upstream.inflationMatch # NoMatch
              THEN [loc EXCEPT !.inflationRate =
                        parseFloat(ReplaceComma(loc.upstream.inflationMatch))]
              ELSE loc
    /\ pc' = "deposit"
    /\ UNCHANGED <<call, args, ret>>

\* Lines 138-149.
CbrAnswer ==
    /\ call = "GET /api/cbr" /\ pc = "deposit"
    /\ ret' = CbrResponse(TRUE, loc.keyRate, loc.inflationRate,
                          DepositRateOf(loc.keyRate))
    /\ pc' = "done"
    /\ UNCHANGED <<call, args, loc>>

\* Lines 150-164.
CbrCatch ==
    /\ call = "GET /api/cbr" /\ pc = "catch"
    /\ ret' = CbrResponse(FALSE, Decimal(21, 0, 0), Decimal(8, 9, 1),
                          Decimal(19, 0, 0))
    /\ pc' = "done"
    /\ UNCHANGED <<call, args, loc>>

NextCbr ==
    CbrFetch \/ CbrStatus \/ CbrKeyRate \/ CbrInflation \/ CbrAnswer \/ CbrCatch

SpecCbr == InitCbr /\ [][NextCbr]_vars

CbrDone == call = "GET /api/cbr" /\ pc = "done"

\* The figure a response gives: a number that is not null.
IsFigure(json, x) == ~json.null /\ json.value = x

\* The deposit rate of a response is the larger of its key rate less 2 and
\* nine tenths of its key rate.
DepositOfKeyRate(data) ==
    /\ ~data.depositRate.null
    /\ NumGeq(data.depositRate.value, NumSub(data.keyRate.value, NumOfInt(2)))
    /\ NumGeq(data.depositRate.value,
              NumMul(data.keyRate.value, NumMul(NumOfInt(9), Tenth)))
    /\ \/ data.depositRate.value = NumSub(data.keyRate.value, NumOfInt(2))
       \/ data.depositRate.value =
              NumMul(data.keyRate.value, NumMul(NumOfInt(9), Tenth))

\* The fallbacks of C21: 21 / 8.9 / 19 when fetch throws, 21 and 8.9 for a
\* figure whose pattern does not match or whose page came with a status that
\* is not OK.
CbrFallbacksKept ==
    /\ ~loc.upstream.reached =>
            /\ IsFigure(ret.data.keyRate, NumOfInt(21))
            /\ IsFigure(ret.data.inflationRate, Decimal(8, 9, 1).value)
            /\ IsFigure(ret.data.depositRate, NumOfInt(19))
    /\ (~loc.upstream.ok \/ loc.upstream.keyRateMatch = NoMatch) =>
            IsFigure(ret.data.keyRate, NumOfInt(21))
    /\ (~loc.upstream.ok \/ loc.upstream.inflationMatch = NoMatch) =>
            IsFigure(ret.data.inflationRate, Decimal(8, 9, 1).value)

\* C21: every response of the handler carries numbers as keyRate,
\* inflationRate and depositRate, the fallbacks 21 / 8.9 / 19 when fetch
\* throws and 21 / 8.9 for a figure that a non-OK status or a pattern
\* without match leaves alone, and depositRate = max(keyRate - 2,
\* 0.9 * keyRate).
C21_NumericRatesAlways ==
    CbrDone =>
        /\ ~ret.data.keyRate.null
        /\ ~ret.data.inflationRate.null
        /\ ~ret.data.depositRate.null
        /\ CbrFallbacksKept
        /\ DepositOfKeyRate(ret.data)

\* What holds of C21: the same, for the captured texts that begin, after the
\* comma is replaced, with a digit or with a point and a digit.
C21_NumericRatesOfDigits ==
    (/\ CbrDone
     /\ ~parseFloat(ReplaceComma(loc.upstream.keyRateMatch)).nan
            \/ loc.upstream.keyRateMatch = NoMatch
     /\ ~parseFloat(ReplaceComma(loc.upstream.inflationMatch)).nan
            \/ loc.upstream.inflationMatch = NoMatch) =>
        /\ ~ret.data.keyRate.null
        /\ ~ret.data.inflationRate.null
        /\ CbrFallbacksKept
        /\ DepositOfKeyRate(ret.data)

\* A page whose key-rate pattern captures a single point: keyRate and
\* depositRate are null in the response, which still says success.
C21_WitnessNullRate ==
    /\ CbrDone
    /\ loc.upstream.keyRateMatch = <<".">>
    /\ ret.success
    /\ ret.data.keyRate.null /\ ret.data.depositRate.null

\* A page with the key rate 16,50 and no inflation figure: 16.5, 8.9, 14.85.
C21_WitnessParsed ==
    /\ CbrDone
    /\ loc.upstream.keyRateMatch = <<"1", "6", ",", "5", "0">>
    /\ loc.upstream.inflationMatch = NoMatch
    /\ IsFigure(ret.data.keyRate, Decimal(16, 5, 1).value)
    /\ IsFigure(ret.data.inflationRate, Decimal(8, 9, 1).value)
    /\ IsFigure(ret.data.depositRate, Decimal(14, 85, 2).value)

(***************************************************************************)
(* The component's two fetches with the user at the form: the state hooks  *)
(* of lines 99-106, fetchCbrData, fetchMarketPrices, the effects of lines  *)
(* 142-153 and the handlers of the controls.  Requests complete in any     *)
(* order.  A render's effects run before the next event (pc = "effects");  *)
(* `changed` holds what they depend on that the render changed.  The       *)
(* history of a response is named by the period it was asked for, and      *)
(* `results`, which follow the inputs, are left to the machines above.     *)
(* `unanswered` notes that some price request ended without success, and   *)
(* ret how the request that ended last did.                                *)
(***************************************************************************)
\* The most price requests under way at once.
MaxInFlight == 2

\* The types and periods that the user picks here.
PickedTypes == {"3", "6"}
PickedPeriods == {"1", "2"}

\* The responses of /api/prices that a request may get: the fallback of a
\* failed upstream, and the prices of its rows.
PriceResponses(type) ==
    {PricesGET(type, upstream) :
        upstream \in {u \in UpstreamOutcomes : ~u.reached \/ Len(u.body.rows) > 0}}

\* The responses of /api/cbr that the request may get.
CbrResponses ==
    {CbrResponse(TRUE, Decimal(16, 5, 1), Decimal(8, 9, 1),
                 DepositRateOf(Decimal(16, 5, 1))),
     CbrResponse(FALSE, Decimal(21, 0, 0), Decimal(8, 9, 1), Decimal(19, 0, 0))}

NoCbrData == [none |-> TRUE]

\* priceSource is the market a price request was made under.
FetchEnded(fetch, success, priceSource) ==
    [fetch |-> fetch, success |-> success, priceSource |-> priceSource]

PriceRequest(type, period, priceSource) ==
    [type |-> type, period |-> period, priceSource |-> priceSource]

\* The sequence without its k-th element.
Without(seq, k) == [j \in 1..(Len(seq) - 1) |-> IF j < k THEN seq[j] ELSE seq[j + 1]]

\* The component after its first render and the effects of it: both requests
\* are under way.
InitFetches ==
    /\ call = "MortgageCalculator"
    /\ args = NoLocals
    /\ pc = "idle"
    /\ loc = [inputs |-> FormInputs(50000, 0),
              apartmentType |-> "3",
              pricePeriod |-> "2",
              priceSource |-> "new",
              marketPrices |-> NoPrices,
              isLoadingPrices |-> TRUE,
              cbrData |-> NoCbrData,
              cbrInFlight |-> TRUE,
              inFlight |-> <<PriceRequest("3", "2", "new")>>,
              changed |-> {},
              unanswered |-> FALSE]
    /\ ret = FetchEnded("none", FALSE, "none")

\* Line 265: another type is selected.
PickApartmentType ==
    /\ call = "MortgageCalculator" /\ pc = "idle"
    /\ Len(loc.inFlight) < MaxInFlight
    /\ \E type \in PickedTypes \ {loc.apartmentType} :
         loc' = [loc EXCEPT !.apartmentType = type, !.changed = {"request"}]
    /\ pc' = "effects"
    /\ UNCHANGED <<call, args, ret>>

\* Line 996: another period is selected in the chart.
PickPricePeriod ==
    /\ call = "MortgageCalculator" /\ pc = "idle"
    /\ Len(loc.inFlight) < MaxInFlight
    /\ \E period \in PickedPeriods \ {loc.pricePeriod} :
         loc' = [loc EXCEPT !.pricePeriod = period, !.changed = {"request"}]
    /\ pc' = "effects"
    /\ UNCHANGED <<call, args, ret>>

\* Line 280: the other market is selected; fetchMarketPrices is made anew
\* (line 140).
PickPriceSource ==
    /\ call = "MortgageCalculator" /\ pc = "idle"
    /\ Len(loc.inFlight) < MaxInFlight
    /\ \E source \in PriceSources \ {loc.priceSource} :
         loc' = [loc EXCEPT !.priceSource = source, !.changed = {"request", "price"}]
    /\ pc' = "effects"
    /\ UNCHANGED <<call, args, ret>>

\* Lines 124-126: fetchMarketPrices up to its request.
IssuePriceRequest(st) ==
    [st EXCEPT !.isLoadingPrices = TRUE,
               !.inFlight = Append(st.inFlight,
                   PriceRequest(st.apartmentType, st.pricePeriod, st.priceSource))]

\* Lines 251-252: the refresh button, disabled while prices load.
PressRefresh ==
    /\ call = "MortgageCalculator" /\ pc = "idle"
    /\ Len(loc.inFlight) < MaxInFlight
    /\ ~loc.isLoadingPrices
    /\ loc' = IssuePriceRequest(loc)
    /\ UNCHANGED <<call, args, pc, ret>>

\* Lines 334 and 339 with updateInput: a price, here 5000000, is entered.
TypeApartmentPrice ==
    /\ call = "MortgageCalculator" /\ pc = "idle"
    /\ loc' = [loc EXCEPT !.inputs.apartmentPrice = NumOfInt(5000000)]
    /\ UNCHANGED <<call, args, pc, ret>>

\* Lines 587 and 597 with updateInput: the slider or a preset button, here
\* the one of 8.
SetInterestRate ==
    /\ call = "MortgageCalculator" /\ pc = "idle"
    /\ loc' = [loc EXCEPT !.inputs.savingsInterestRate = NumOfInt(8)]
    /\ UNCHANGED <<call, args, pc, ret>>

\* Lines 608 and 622: the suggested deposit rate, shown once cbrData is set,
\* is clicked.
TakeSuggestedRate ==
    /\ call = "MortgageCalculator" /\ pc = "idle"
    /\ loc.cbrData # NoCbrData
    /\ loc' = [loc EXCEPT !.inputs.savingsInterestRate = loc.cbrData.depositRate.value]
    /\ UNCHANGED <<call, args, pc, ret>>

\* A slip of lines 113-115: the suggested rate is put into the inputs.
CbrSetEnforcing(st, response) ==
    IF response.success
    THEN [st EXCEPT !.cbrData = response.data,
                    !.inputs.savingsInterestRate = response.data.depositRate.value]
    ELSE st

\* Lines 113-115.
CbrSet(st, response) ==
    IF response.success THEN [st EXCEPT !.cbrData = response.data] ELSE st

\* Lines 111-115: the request of fetchCbrData is answered.
CompleteCbrFetch ==
    /\ call = "MortgageCalculator" /\ pc = "idle"
    /\ loc.cbrInFlight
    /\ \E response \in CbrResponses :
         /\ loc' = [CbrSet(loc, response) EXCEPT !.cbrInFlight = FALSE]
         /\ ret' = FetchEnded("cbr", response.success, "none")
    /\ UNCHANGED <<call, args, pc>>

\* Lines 116-118: the request of fetchCbrData fails.
FailCbrFetch ==
    /\ call = "MortgageCalculator" /\ pc = "idle"
    /\ loc.cbrInFlight
    /\ loc' = [loc EXCEPT !.cbrInFlight = FALSE]
    /\ ret' = FetchEnded("cbr", FALSE, "none")
    /\ UNCHANGED <<call, args, pc>>

\* A slip of lines 128-134: the price is left to the user.
PricesSetOnly(st, request, response) ==
    IF response.success
    THEN [st EXCEPT !.marketPrices =
                        [type |-> response.data.type,
                         averagePrice |-> response.data.averagePrice,
                         history |-> request.period],
                    !.changed = {"price"}]
    ELSE [st EXCEPT !.unanswered = TRUE]

\* Lines 128-134: a response with `success` sets the market prices and, by
\* the market the request was made under, the apartment price.
PricesSet(st, request, response) ==
    IF response.success
    THEN [st EXCEPT !.marketPrices =
                        [type |-> response.data.type,
                         averagePrice |-> response.data.averagePrice,
                         history |-> request.period],
                    !.inputs.apartmentPrice =
                        NumOfInt(PriceOfSource(request.priceSource, response.data)),
                    !.changed = {"price"}]
    ELSE [st EXCEPT !.unanswered = TRUE]

\* Lines 126-134 and 137-139: one of the requests under way is answered.
CompletePriceFetch ==
    /\ call = "MortgageCalculator" /\ pc = "idle"
    /\ \E k \in 1..Len(loc.inFlight) :
         \E response \in PriceResponses(loc.inFlight[k].type) :
            /\ loc' = [PricesSet(loc, loc.inFlight[k], response) EXCEPT
                            !.inFlight = Without(loc.inFlight, k),
                            !.isLoadingPrices = FALSE]
            /\ pc' = IF response.success THEN "effects" ELSE "idle"
            /\ ret' = FetchEnded("prices", response.success,
                                 loc.inFlight[k].priceSource)
    /\ UNCHANGED <<call, args>>

\* Lines 135-139: one of the requests under way fails.
FailPriceFetch ==
    /\ call = "MortgageCalculator" /\ pc = "idle"
    /\ \E k \in 1..Len(loc.inFlight) :
         /\ loc' = [loc EXCEPT !.inFlight = Without(loc.inFlight, k),
                               !.isLoadingPrices = FALSE,
                               !.unanswered = TRUE]
         /\ ret' = FetchEnded("prices", FALSE, loc.inFlight[k].priceSource)
    /\ UNCHANGED <<call, args, pc>>

\* A slip: the effect of lines 146-153 is not there.
PriceLeftAsSet(st) == st

\* The effect of lines 146-153.
PriceOfMarket(st) ==
    IF "price" \in st.changed /\ st.marketPrices # NoPrices
    THEN [st EXCEPT !.inputs.apartmentPrice =
                        NumOfInt(PriceOfSource(st.priceSource, st.marketPrices))]
    ELSE st

\* The effects of lines 142-144 and 146-153 after a render.
RunEffects ==
    /\ call = "MortgageCalculator" /\ pc = "effects"
    /\ loc' = [PriceOfMarket(IF "request" \in loc.changed
                             THEN IssuePriceRequest(loc) ELSE loc)
                EXCEPT !.changed = {}]
    /\ pc' = "idle"
    /\ UNCHANGED <<call, args, ret>>

NextFetches ==
    \/ PickApartmentType
    \/ PickPricePeriod
    \/ PickPriceSource
    \/ PressRefresh
    \/ TypeApartmentPrice
    \/ SetInterestRate
    \/ TakeSuggestedRate
    \/ CompleteCbrFetch
    \/ FailCbrFetch
    \/ CompletePriceFetch
    \/ FailPriceFetch
    \/ RunEffects

SpecFetches == InitFetches /\ [][NextFetches]_vars

\* A step in which the request of fetchCbrData ends, and one in which a
\* price request ends.
CbrFetchEnds == loc.cbrInFlight /\ ~loc'.cbrInFlight

PriceFetchEnds == Len(loc'.inFlight) < Len(loc.inFlight)

\* C22: the step that ends the request of fetchCbrData, with or without
\* success, leaves the inputs as they are, and every step that changes
\* inputs.savingsInterestRate is the slider or a preset button or the click
\* on the suggested deposit rate.
C22_RateOnlyByUser ==
    [][/\ CbrFetchEnds => loc'.inputs = loc.inputs
       /\ loc'.inputs.savingsInterestRate # loc.inputs.savingsInterestRate =>
              SetInterestRate \/ TakeSuggestedRate]_vars

\* The rates have arrived and the interest rate is still the one of the form.
C22_Witness ==
    /\ call = "MortgageCalculator" /\ ret.fetch = "cbr" /\ ret.success
    /\ loc.cbrData # NoCbrData
    /\ loc.cbrData.depositRate.value = Decimal(14, 85, 2).value
    /\ loc.inputs.savingsInterestRate = NumOfInt(0)

\* The suggested rate has been clicked.
C22_WitnessTaken ==
    /\ call = "MortgageCalculator"
    /\ loc.cbrData # NoCbrData
    /\ loc.inputs.savingsInterestRate = Decimal(14, 85, 2).value

\* The parts of C23 on the requests that end without success and on the
\* request of the rates.
FailedFetchesTouchNothing ==
    /\ (PriceFetchEnds /\ ~ret'.success) =>
            /\ loc'.marketPrices = loc.marketPrices
            /\ loc'.cbrData = loc.cbrData
            /\ loc'.inputs = loc.inputs
    /\ CbrFetchEnds =>
            /\ loc'.marketPrices = loc.marketPrices
            /\ loc'.inputs = loc.inputs
            /\ ~ret'.success => loc'.cbrData = loc.cbrData

\* C23 as stated: a request that ends without success leaves marketPrices,
\* cbrData and inputs as they were, and one that ends with success changes
\* its own piece only, marketPrices or cbrData, and nothing of the inputs.
C23_OwnPieceOnly ==
    [][/\ FailedFetchesTouchNothing
       /\ (PriceFetchEnds /\ ret'.success) =>
              /\ loc'.cbrData = loc.cbrData
              /\ loc'.inputs = loc.inputs]_vars

\* C23 as the code has it: a price request that ends with success changes
\* marketPrices and inputs.apartmentPrice, which becomes an average price of
\* the response whatever the user had entered, and nothing else of the
\* inputs nor cbrData; the rest as stated.
C23_OwnPieceAndPrice ==
    [][/\ FailedFetchesTouchNothing
       /\ (PriceFetchEnds /\ ret'.success) =>
              /\ loc'.cbrData = loc.cbrData
              /\ loc'.inputs = [loc.inputs EXCEPT
                                  !.apartmentPrice = loc'.inputs.apartmentPrice]
              /\ loc'.inputs.apartmentPrice \in
                     {NumOfInt(loc'.marketPrices.averagePrice.newBuilding),
                      NumOfInt(loc'.marketPrices.averagePrice.secondary)}]_vars

\* A price request has just ended with success over a typed price and a set
\* interest rate: the price is the one of the response, the rate is kept.
C23_Witness ==
    /\ call = "MortgageCalculator" /\ pc = "effects"
    /\ ret.fetch = "prices" /\ ret.success
    /\ loc.inputs.savingsInterestRate = NumOfInt(8)
    /\ loc.cbrData # NoCbrData
    /\ loc.inputs.apartmentPrice = NumOfInt(519306 * 55)

\* C28: once no price request is under way and every one of them ended with
\* success, the market prices held are those of the selected type and period.
C28_NoStalePrices ==
    (/\ call = "MortgageCalculator" /\ pc = "idle"
     /\ loc.inFlight = <<>> /\ ~loc.unanswered) =>
        /\ loc.marketPrices # NoPrices
        /\ loc.marketPrices.type = loc.apartmentType
        /\ loc.marketPrices.history = loc.pricePeriod

\* C29: isLoadingPrices is true exactly while a price request is under way.
C29_LoadingWhileInFlight ==
    call = "MortgageCalculator" => (loc.isLoadingPrices <=> loc.inFlight # <<>>)

\* The apartment price is the average price, for the selected market, of the
\* market prices held.
PriceAgrees(st) ==
    st.marketPrices # NoPrices =>
        st.inputs.apartmentPrice =
            NumOfInt(PriceOfSource(st.priceSource, st.marketPrices))

ShortTermInputs == CalculatorInputs(10000000, 0, 50000, 0, 20, 0, 0, 18, 1)

\* What the model types into the field of the monthly savings.
EditedSavings == {50000, 100000, 200000}

InitResults ==
    /\ call = "setResults"
    /\ args = NoLocals
    /\ pc = "idle"
    /\ loc = [inputs |-> ShortTermInputs,
              results |-> calculateAll(ShortTermInputs),
              marketPrices |-> NoPrices,
              cbrData |-> NoCbrData,
              pricesInFlight |-> TRUE,
              cbrInFlight |-> TRUE]
    /\ ret = NoValue

\* updateInput (lines 155-160) from the field of line 514.
EditSavings ==
    /\ call = "setResults" /\ pc = "idle"
    /\ \E value \in EditedSavings :
         loc' = [loc EXCEPT !.inputs.monthlySavings = NumOfInt(value)]
    /\ pc' = "pending"
    /\ UNCHANGED <<call, args, ret>>

\* Lines 126-139: the price request is answered, or fails; a response with
\* `success` sets the market prices and the apartment price.
PricesArrive ==
    /\ call = "setResults" /\ pc = "idle"
    /\ loc.pricesInFlight
    /\ \E response \in PriceResponses("3") :
         IF response.success
         THEN /\ loc' = [loc EXCEPT
                          !.pricesInFlight = FALSE,
                          !.marketPrices = response.data,
                          !.inputs.apartmentPrice =
                              NumOfInt(PriceOfSource("new", response.data))]
              /\ pc' = "pending"
         ELSE /\ loc' = [loc EXCEPT !.pricesInFlight = FALSE]
              /\ pc' = "idle"
    /\ UNCHANGED <<call, args, ret>>

\* Lines 111-118: the request of the rates is answered, or fails.
RatesArrive ==
    /\ call = "setResults" /\ pc = "idle"
    /\ loc.cbrInFlight
    /\ \E response \in CbrResponses :
         loc' = [CbrSet(loc, response) EXCEPT !.cbrInFlight = FALSE]
    /\ UNCHANGED <<call, args, pc, ret>>

\* A slip of the effect: only the scalar results follow the inputs, the
\* projection stays.
ResultsOfPartly(inputs, results) ==
    [calculateAll(inputs) EXCEPT !.monthlyProjection = results.monthlyProjection]

\* Lines 163-164: the results of the inputs, all of them anew.
ResultsOf(inputs, results) == calculateAll(inputs)

\* The effect of lines 162-165.
RecalculateResults ==
    /\ call = "setResults" /\ pc = "pending"
    /\ loc' = [loc EXCEPT !.results = ResultsOf(loc.inputs, loc.results)]
    /\ pc' = "idle"
    /\ UNCHANGED <<call, args, ret>>

NextResults == EditSavings \/ PricesArrive \/ RatesArrive \/ RecalculateResults

SpecResults == InitResults /\ [][NextResults]_vars

\* A step of the effect, told by pc: RecalculateResults is the only action
\* that leaves "pending".
EffectRuns == pc = "pending" /\ pc' = "idle"

\* React runs the effects of a render: a pending recalculation is not put
\* off for ever.
LiveSpecResults == SpecResults /\ WF_pc(EffectRuns)

\* C24: with no effect pending the results are calculateAll of the inputs,
\* whole, and a pending effect is always followed by such a state.
C24_ResultsFollowInputs ==
    /\ [](pc = "idle" => loc.results = calculateAll(loc.inputs))
    /\ (pc = "pending" ~> pc = "idle")

\* Edits and both arrivals have happened and the results are those of the
\* inputs now held.
C24_Witness ==
    /\ call = "setResults" /\ pc = "idle"
    /\ ~loc.pricesInFlight /\ ~loc.cbrInFlight
    /\ loc.marketPrices # NoPrices /\ loc.cbrData # NoCbrData
    /\ loc.inputs.monthlySavings = NumOfInt(200000)
    /\ loc.inputs.apartmentPrice = NumOfInt(519306 * 55)
    /\ loc.results.futureApartmentPrice = NumOfInt(519306 * 55)
    /\ loc.results.monthsToDownPayment = 29

(***************************************************************************)
(* The search of calculateAll and the projection it returns, month by      *)
(* month.                                                                  *)
(***************************************************************************)
\* The stored surplus of the point of month k of the returned projection.
SurplusOf(k) == ret.monthlyProjection[k + 1].surplus

\* The savings of month k are below the target of month k before rounding.
ShortOf(inputs, k) == NumLt(UnroundedSavings(inputs, k), UnroundedTarget(inputs, k))

\* The months of the returned projection.
ProjectionMonths == 0..defaultMaxMonths

\* C25 as stated: when monthsToDownPayment is m in 0..120 the point of month
\* m is the first point of monthlyProjection with surplus >= 0 (every
\* earlier point has surplus < 0); when it is -1 or above 120 every one of
\* the 121 points has surplus < 0.
C25_FirstNonNegativeSurplus ==
    AllDone =>
        LET m == ret.monthsToDownPayment
        IN  /\ m \in ProjectionMonths =>
                  /\ NumGeq(SurplusOf(m), NumOfInt(0))
                  /\ \A k \in 0..(m - 1) : NumLt(SurplusOf(k), NumOfInt(0))
            /\ m \notin ProjectionMonths =>
                  \A k \in ProjectionMonths : NumLt(SurplusOf(k), NumOfInt(0))

\* C25: when monthsToDownPayment is m in 0..120 the point of month m has
\* surplus >= 0 and at every earlier month the savings are below the target
\* before rounding, so that the stored surplus of the earlier point is
\* negative or, for a shortfall of at most a half, zero; when it is -1 or
\* above 120 the same holds of every one of the 121 points.
C25_FirstMonthNotShort ==
    AllDone =>
        LET m == ret.monthsToDownPayment
            before == IF m \in ProjectionMonths THEN 0..(m - 1) ELSE ProjectionMonths
        IN  /\ Len(ret.monthlyProjection) = defaultMaxMonths + 1
            /\ m \in ProjectionMonths =>
                  /\ NumGeq(SurplusOf(m), NumOfInt(0))
                  /\ ~ShortOf(args, m)
            /\ \A k \in before :
                  /\ ShortOf(args, k)
                  /\ NumGeq(NumOfInt(0), SurplusOf(k))
                  /\ SurplusOf(k) = NumOfInt(0) =>
                        NumGeq(NumMul(NumOfInt(2), UnroundedSavings(args, k)),
                               NumSub(NumMul(NumOfInt(2), UnroundedTarget(args, k)), One))

\* calculateAll has returned a month m ahead, and the point before it has
\* the surplus zero although its savings are short of its target.
C25_Witness ==
    /\ AllDone
    /\ ret.monthsToDownPayment \in 2..defaultMaxMonths
    /\ SurplusOf(ret.monthsToDownPayment - 1) = NumOfInt(0)
    /\ ShortOf(args, ret.monthsToDownPayment - 1)
    /\ SurplusOf(ret.monthsToDownPayment) # NumOfInt(0)

\* calculateAll has returned a month beyond the projection, and the last
\* point of the projection is short.
C25_WitnessBeyond ==
    /\ AllDone
    /\ ret.monthsToDownPayment > defaultMaxMonths
    /\ SurplusOf(defaultMaxMonths).neg

\* The inputs that C26 is about: a positive price, a down payment of more
\* than nothing and at most the whole price, and a price that stays positive
\* from month to month.
PriceStaysPositive(inputs) ==
    /\ NumCmp(inputs.apartmentPrice, NumOfInt(0)) > 0
    /\ NumCmp(inputs.downPaymentPercent, NumOfInt(0)) > 0
    /\ NumGeq(NumOfInt(100), inputs.downPaymentPercent)
    /\ NumCmp(NumAdd(One, MonthlyRate(inputs.priceGrowthRate)), NumOfInt(0)) > 0

\* C26: for a positive apartmentPrice, 0 < downPaymentPercent <= 100 and a
\* positive monthly price factor, a feasible monthsToFullPrice means a
\* feasible monthsToDownPayment that is no later, and an infeasible
\* monthsToDownPayment an infeasible monthsToFullPrice.
C26_DownPaymentNoLater ==
    (AllDone /\ PriceStaysPositive(args)) =>
        /\ ret.monthsToFullPrice >= 0 =>
              /\ ret.monthsToDownPayment >= 0
              /\ ret.monthsToDownPayment <= ret.monthsToFullPrice
        /\ ret.monthsToDownPayment = Infeasible => ret.monthsToFullPrice = Infeasible

\* calculateAll has returned a month for the whole price that is later than
\* the month of the down payment, of a price that falls.
C26_Witness ==
    /\ AllDone
    /\ PriceStaysPositive(args)
    /\ ret.monthsToDownPayment > 0
    /\ ret.monthsToFullPrice > ret.monthsToDownPayment
    /\ args.priceGrowthRate.neg

\* The down payment is the whole price, and both searches give one month.
C26_WitnessWholePrice ==
    /\ AllDone
    /\ args.downPaymentPercent = NumOfInt(100)
    /\ ret.monthsToFullPrice = ret.monthsToDownPayment
    /\ ret.monthsToFullPrice > 0

\* The down payment is feasible and the whole price is not.
C26_WitnessOnlyDownPayment ==
    /\ AllDone
    /\ PriceStaysPositive(args)
    /\ ret.monthsToDownPayment > 0
    /\ ret.monthsToFullPrice = Infeasible

\* C27: when monthsToDownPayment >= 0 the projectedSavings of the record
\* are at least its requiredDownPayment.
C27_SavingsCoverDownPayment ==
    (AllDone /\ ret.monthsToDownPayment >= 0) =>
        NumGeq(ret.projectedSavings, ret.requiredDownPayment)

\* calculateAll has returned a month ahead in which the savings exceed a
\* target that is not whole, and the two amounts of the record are equal.
C27_Witness ==
    /\ AllDone
    /\ ret.monthsToDownPayment > 0
    /\ ret.projectedSavings = ret.requiredDownPayment
    /\ NumCmp(UnroundedSavings(args, ret.monthsToDownPayment),
              UnroundedTarget(args, ret.monthsToDownPayment)) > 0

\* The initial savings meet the down payment of today.
C27_WitnessMet ==
    /\ AllDone
    /\ ret.monthsToDownPayment = 0
    /\ NumCmp(ret.projectedSavings, ret.requiredDownPayment) > 0

\* The month lies ahead, the price has grown and the savings have earned
\* interest.
C27_WitnessAhead ==
    /\ AllDone
    /\ ret.monthsToDownPayment > 0
    /\ args.priceGrowthRate # NumOfInt(0)
    /\ args.savingsInterestRate # NumOfInt(0)
    /\ NumCmp(ret.projectedSavings, ret.requiredDownPayment) > 0
====
